---------------------------- MODULE Spec2Model ----------------------------
(***************************************************************************)
(* Model of the memory-poc chat service: the /api/chat handler with its    *)
(* user-editable tool definitions (src/unnamed/part_003), the /api/push    *)
(* nudge handler (src/unnamed/part_004), the agent run both start, the     *)
(* memory tool executors and the detached memory writes, and the settings  *)
(* panel that edits tool definitions (src/app/ui/page.tsx).                *)
(*                                                                         *)
(* JavaScript values are modelled as follows.  An optional value is a      *)
(* sequence of length 0 (undefined) or 1.  A JSON object whose key order   *)
(* matters (a properties map) is a sequence of [key, value] entries with   *)
(* distinct keys.  A value that may or may not be an object carries a      *)
(* kind field.  A text built from a template and a value is a record of    *)
(* the template and the value.                                             *)
(***************************************************************************)
EXTENDS Integers, Sequences, FiniteSets, TLC

VARIABLES
    env,              \* process.env: which credentials are set
    route,            \* which POST handler serves the request
    pc,               \* position of the handler
    body,             \* the parsed request body
    userId,           \* the handler's userId local (UndefinedUserId when undefined)
    toolDefinitions,  \* the handler's toolDefinitions local
    toolsInstance,    \* the tools handed to the agent
    runState,         \* state of the agent run
    currentTurn,      \* the run's turn counter
    modelCalls,       \* model requests issued so far by the run
    toolCall,         \* the tool invocation of the last model response
    exec,             \* what the last executor invocation did
    toolResult,       \* the textual result of the last tool invocation
    context,          \* the run's conversation items
    finalOutput,      \* result.finalOutput
    runError,         \* the error the run threw
    rawResponses,     \* result.rawResponses: the model responses of the run
    parallelCall,     \* the second tool invocation of a model response with two
    nextWriteId,      \* identity given to the next queued write
    immediates,       \* setImmediate queue: memory writes not yet started
    inflight,         \* memory writes sent to the store, not yet settled
    store,            \* texts the memory store has applied
    errorLog,         \* console.error lines
    response,         \* the HTTP response sent
    uiDefs,           \* settings panel: the toolDefinitions state
    uiError,          \* settings panel: the toolValidationError state
    draft,            \* chat page: the composer's draft state
    sendingRef,       \* chat page: sendingRef.current
    pageMessages,     \* chat page: the messages state
    fetches,          \* chat page: fetch("/api/chat") calls not yet settled
    sitePassword,     \* password gate: NEXT_PUBLIC_SITE_PASSWORD, "" when not set
    localStorage,     \* password gate: the value stored under "site:password"
    authorized,       \* password gate: the authorized state
    effect,           \* password gate: where the effect is
    cancelled,        \* password gate: the effect's cancelled flag
    prompts           \* password gate: the inputs of the prompts shown, in order

handlerVars == <<route, pc, body, userId, toolDefinitions, toolsInstance, response>>
runVars     == <<runState, currentTurn, modelCalls, toolCall, exec, toolResult,
                 context, finalOutput, runError, rawResponses, parallelCall>>
writeVars   == <<nextWriteId, immediates, inflight, store, errorLog>>
composerVars == <<draft, sendingRef, pageMessages, fetches>>
gateVars    == <<sitePassword, localStorage, authorized, effect, cancelled, prompts>>
uiVars      == <<uiDefs, uiError, composerVars, gateVars>>
vars        == <<env, handlerVars, runVars, writeVars, uiVars>>

-----------------------------------------------------------------------------
(* Bounds of the model *)

\* longest toolDefinitions array a request carries
MaxDefs == 2
\* most add_memory writes one run queues
MaxWrites == 2
\* most model responses of one run whose usage is enumerated
MaxResponses == 3
\* most memories the store holds for one user
MaxStored == 26
\* most messages the user sends from the chat page
MaxSubmits == 2
\* most password prompts shown
MaxPrompts == 3

-----------------------------------------------------------------------------
(* Optional values and sequences *)

None == <<>>
Some(x) == <<x>>

Range(s) == {s[i] : i \in 1..Len(s)}

Keys(entries) == [i \in 1..Len(entries) |-> entries[i].key]

SeqsUpTo(S, n) == UNION {[1..k -> S] : k \in 0..n}

\* String.prototype.trim() leaves nothing of these strings
BlankStrings == {"", "  "}
\* a request value that is not a string (absent, null, a number, an object)
NonString == "<non-string>"
IsBlankOrNonString(s) == s = NonString \/ s \in BlankStrings

-----------------------------------------------------------------------------
(* Tool definitions: src/lib/default-settings.ts *)

ParameterTypes == {"string", "number", "integer", "boolean"}

PropertyOf(type, description, enum, minLength, maxLength, minimum, maximum) ==
    [kind |-> "object", type |-> type, description |-> description, enum |-> enum,
     minLength |-> minLength, maxLength |-> maxLength,
     minimum |-> minimum, maximum |-> maximum]

Entry(key, value) == [key |-> key, value |-> value]

SchemaOf(type, properties, required) ==
    [kind |-> "object", type |-> type, additionalProperties |-> Some(FALSE),
     properties |-> properties, required |-> required]

DefinitionOf(name, description, parameters, strict) ==
    [kind |-> "object", name |-> name, description |-> description,
     parameters |-> parameters, strict |-> strict]

TextProperty ==
    PropertyOf("string", "One short sentence to remember about the user",
               None, Some(1), None, None, None)
QueryProperty ==
    PropertyOf("string", "What to look up about the user", None, Some(1), None, None, None)
LimitProperty ==
    PropertyOf("integer", "Maximum number of items to return", None, None, None, Some(1), None)

AddMemoryDefinition ==
    DefinitionOf("add_memory", "Use this tool to write memories associated with the user.",
                 SchemaOf("object", <<Entry("text", TextProperty)>>, <<"text">>),
                 Some(TRUE))
SearchMemoriesDefinition ==
    DefinitionOf("search_memories", "Search previously saved user memories.",
                 SchemaOf("object",
                          <<Entry("query", QueryProperty), Entry("limit", LimitProperty)>>,
                          <<"query", "limit">>),
                 Some(TRUE))

DEFAULT_TOOL_DEFINITIONS == <<AddMemoryDefinition, SearchMemoriesDefinition>>


-----------------------------------------------------------------------------
(* Request payloads: what a client may send as body.toolDefinitions *)

NonObject == [kind |-> "nonobject"]
AbsentParameters == [kind |-> "absent"]
\* a property whose type is none of the four supported ones
ArrayTypedProperty == PropertyOf("array", "A list", None, None, None, None, None)

\* a property with no type at all
UntypedProperty == PropertyOf("undefined", "Anything", None, None, None, None, None)

WithName(def, name) == [def EXCEPT !.name = name]
WithDescription(def, d) == [def EXCEPT !.description = d]
WithParameters(def, p) == [def EXCEPT !.parameters = p]
WithProperties(def, props) == [def EXCEPT !.parameters.properties = props]
WithRequired(def, req) == [def EXCEPT !.parameters.required = req]

\* the two default definitions, and each of them with one field changed
RawItems ==
    { NonObject, AddMemoryDefinition, SearchMemoriesDefinition,
      WithName(AddMemoryDefinition, NonString),
      WithName(AddMemoryDefinition, "  "),
      WithName(AddMemoryDefinition, "bogus"),
      WithName(SearchMemoriesDefinition, "toString"),
      WithDescription(AddMemoryDefinition, NonString),
      WithDescription(SearchMemoriesDefinition, "  "),
      WithParameters(AddMemoryDefinition, AbsentParameters),
      WithParameters(SearchMemoriesDefinition, SchemaOf("array", <<>>, <<>>)),
      WithProperties(SearchMemoriesDefinition,
                     <<Entry("query", QueryProperty), Entry("limit", NonObject)>>),
      WithProperties(AddMemoryDefinition, <<>>),
      WithProperties(AddMemoryDefinition, <<Entry("text", ArrayTypedProperty)>>),
      WithRequired(AddMemoryDefinition, <<>>),
      WithRequired(SearchMemoriesDefinition, <<"query">>),
      WithRequired(AddMemoryDefinition, <<"text", "other">>) }

\* body.toolDefinitions: absent, not an array, or an array of items
AbsentPayload == [kind |-> "undefined"]
NonArrayPayload == [kind |-> "nonarray"]
ArrayPayload(items) == [kind |-> "array", items |-> items]
RawPayloads ==
    {AbsentPayload, NonArrayPayload} \cup {ArrayPayload(s) : s \in SeqsUpTo(RawItems, MaxDefs)}

-----------------------------------------------------------------------------
(* normalizeToolDefinitions: src/unnamed/part_003 lines 185-249 *)

\* an Error: its message template and the values the template interpolates
ErrorOf(text, index, name, param) ==
    [text |-> text, index |-> index, name |-> name, param |-> param]

Thrown(error) == [ok |-> FALSE, error |-> error]
Returned(value) == [ok |-> TRUE, value |-> value]

\* {...propValue, enum: propValue.enum ? [...propValue.enum] : undefined}
ClonedProperty(prop) == prop

ClonedProperties(properties) ==
    [i \in 1..Len(properties) |->
        Entry(properties[i].key, ClonedProperty(properties[i].value))]

\* a normalizer that would keep the required list of its input
NormalizedRequiredKept(paramSchema, clonedProperties) == paramSchema.required

\* required: propertyKeys, with propertyKeys = Object.keys(clonedProperties)
NormalizedRequired(paramSchema, clonedProperties) == Keys(clonedProperties)

\* a description check that would forget .trim()
IsValidDescriptionUntrimmed(description) == description # NonString

\* typeof description === "string" && description.trim(), line 202
IsValidDescription(description) == ~IsBlankOrNonString(description)

\* one item of input.map((item, index) => ...); index counts from 0
NormalizeItem(item, index) ==
    IF item.kind # "object"
    THEN Thrown(ErrorOf("Tool definition at index ${index} must be an object.",
                        Some(index), None, None))
    ELSE IF IsBlankOrNonString(item.name)
    THEN Thrown(ErrorOf("Tool definition at index ${index} is missing a valid name.",
                        Some(index), None, None))
    ELSE IF ~IsValidDescription(item.description)
    THEN Thrown(ErrorOf("Tool definition for ${name} is missing a valid description.",
                        None, Some(item.name), None))
    ELSE IF item.parameters.kind # "object"
    THEN Thrown(ErrorOf("Tool definition for ${name} is missing parameters.",
                        None, Some(item.name), None))
    ELSE IF item.parameters.type # "object"
    THEN Thrown(ErrorOf("Tool definition for ${name} must use an object schema.",
                        None, Some(item.name), None))
    ELSE
      LET rawProperties == item.parameters.properties
          invalid == {i \in 1..Len(rawProperties) : rawProperties[i].value.kind # "object"}
      IN  IF invalid # {}
          THEN LET first == CHOOSE i \in invalid : \A j \in invalid : i <= j
               IN  Thrown(ErrorOf("Tool definition for ${name} has an invalid parameter: ${propKey}.",
                                  None, Some(item.name), Some(rawProperties[first].key)))
          ELSE IF Len(rawProperties) = 0
          THEN Thrown(ErrorOf("Tool definition for ${name} must include at least one parameter.",
                              None, Some(item.name), None))
          ELSE LET clonedProperties == ClonedProperties(rawProperties)
               IN  Returned(
                     [kind |-> "object", name |-> item.name,
                      description |-> item.description,
                      parameters |->
                        [item.parameters EXCEPT
                           !.properties = clonedProperties,
                           !.required = NormalizedRequired(item.parameters, clonedProperties)],
                      strict |-> item.strict])

NormalizeToolDefinitions(input) ==
    IF input.kind # "array"
    THEN Thrown(ErrorOf("Tool definitions must be an array.", None, None, None))
    ELSE
      LET results == [i \in 1..Len(input.items) |-> NormalizeItem(input.items[i], i - 1)]
          failed == {i \in 1..Len(results) : ~results[i].ok}
      IN  IF failed # {}
          THEN results[CHOOSE i \in failed : \A j \in failed : i <= j]
          ELSE Returned([i \in 1..Len(results) |-> results[i].value])

-----------------------------------------------------------------------------
(* Argument values and the zod validators: src/unnamed/part_003 lines 102-165 *)

\* JSON values of an argument object.  A number is kept as twice its value,
\* so that halves are representable: 3 is twice |-> 6, 1.5 is twice |-> 3.
StringValue(s) == [t |-> "string", s |-> s]
NumberValue(twice) == [t |-> "number", twice |-> twice]
BooleanValue(b) == [t |-> "boolean", b |-> b]

HasKey(entries, key) == \E i \in 1..Len(entries) : entries[i].key = key
Get(entries, key) == (CHOOSE i \in 1..Len(entries) : entries[i].key = key)
ValueAt(entries, key) == entries[Get(entries, key)].value

UndefinedValue == [t |-> "undefined"]
NullValue == [t |-> "null"]
\* an object or array value, whose content plays no part
ObjectValue == [t |-> "object"]

\* object?.path: the value at a property path of an object given by its entries
AtPath(snapshot, path) ==
    IF HasKey(snapshot, path) THEN ValueAt(snapshot, path) ELSE UndefinedValue

\* a ?? b ?? ... ?? undefined: the first value that is neither null nor undefined
Coalesce(values) ==
    LET defined == SelectSeq(values, LAMBDA v : v.t \notin {"undefined", "null"})
    IN  IF defined = <<>> THEN UndefinedValue ELSE defined[1]

\* a builder that would leave .int() out of an integer property
BuildZodForPropertyWithoutInt(prop) ==
    CASE prop.type = "string" ->
           IF Len(prop.enum) > 0
           THEN Returned([zod |-> "enum", values |-> prop.enum])
           ELSE Returned([zod |-> "string", min |-> prop.minLength, max |-> prop.maxLength])
      [] prop.type \in {"integer", "number"} ->
           Returned([zod |-> "number", int |-> FALSE,
                     min |-> prop.minimum, max |-> prop.maximum])
      [] prop.type = "boolean" -> Returned([zod |-> "boolean"])
      [] OTHER ->
           Thrown(ErrorOf("Unsupported parameter type: ${String(prop.type)}",
                          None, None, None))

\* buildZodForProperty(prop): the zod type, or the Error it throws
BuildZodForProperty(prop) ==
    CASE prop.type = "string" ->
           IF Len(prop.enum) > 0
           THEN Returned([zod |-> "enum", values |-> prop.enum])
           ELSE Returned([zod |-> "string", min |-> prop.minLength, max |-> prop.maxLength])
      [] prop.type = "integer" ->
           Returned([zod |-> "number", int |-> TRUE,
                     min |-> prop.minimum, max |-> prop.maximum])
      [] prop.type = "number" ->
           Returned([zod |-> "number", int |-> FALSE,
                     min |-> prop.minimum, max |-> prop.maximum])
      [] prop.type = "boolean" -> Returned([zod |-> "boolean"])
      [] OTHER ->
           Thrown(ErrorOf("Unsupported parameter type: ${String(prop.type)}",
                          None, None, None))

\* z.object(shape): zod's object schema drops the keys its shape does not name
ZodObject(shape) == [zod |-> "object", shape |-> shape, unknownKeys |-> "strip"]

\* a builder that would leave out the properties it has no validator for
BuildToolParametersOfSupported(schema) ==
    LET supported == SelectSeq(schema.properties,
                               LAMBDA e : BuildZodForProperty(e.value).ok)
    IN  Returned(ZodObject([i \in 1..Len(supported) |->
                               Entry(supported[i].key,
                                     BuildZodForProperty(supported[i].value).value)]))

\* buildToolParameters(schema)
BuildToolParameters(schema) ==
    IF schema.type # "object"
    THEN Thrown(ErrorOf("Tool parameter schema must be an object", None, None, None))
    ELSE
      LET built == [i \in 1..Len(schema.properties) |->
                       BuildZodForProperty(schema.properties[i].value)]
          failed == {i \in 1..Len(built) : ~built[i].ok}
      IN  IF failed # {}
          THEN built[CHOOSE i \in failed : \A j \in failed : i <= j]
          ELSE Returned(ZodObject([i \in 1..Len(built) |->
                                      Entry(schema.properties[i].key, built[i].value)]))

\* whether a zod type of a property accepts a value
ZodAccepts(type, value) ==
    CASE type.zod = "enum" ->
           value.t = "string" /\ value.s \in Range(type.values)
      [] type.zod = "string" ->
           /\ value.t = "string"
           /\ (type.min # None => Len(value.s) >= type.min[1])
           /\ (type.max # None => Len(value.s) <= type.max[1])
      [] type.zod = "number" ->
           /\ value.t = "number"
           /\ (type.int => value.twice % 2 = 0)
           /\ (type.min # None => value.twice >= 2 * type.min[1])
           /\ (type.max # None => value.twice <= 2 * type.max[1])
      [] type.zod = "boolean" -> value.t = "boolean"
      [] OTHER -> FALSE

\* parameters.parse(args): the parsed object (the shape's keys, in the shape's
\* order), or a failure
ZodParse(object, args) ==
    LET shape == object.shape
        shapeKeys == Range(Keys(shape))
        argKeys == Range(Keys(args))
        \* .default(v): an absent key parses to v
        parsed(i) == IF HasKey(args, shape[i].key) THEN ValueAt(args, shape[i].key)
                     ELSE NumberValue(shape[i].value.twice)
        accepts(i) == IF shape[i].value.zod = "default"
                      THEN ~HasKey(args, shape[i].key)
                           \/ ZodAccepts(shape[i].value.inner, ValueAt(args, shape[i].key))
                      ELSE /\ HasKey(args, shape[i].key)
                           /\ ZodAccepts(shape[i].value, ValueAt(args, shape[i].key))
    IN  IF /\ \A i \in 1..Len(shape) : accepts(i)
           /\ (object.unknownKeys = "strict" => argKeys \subseteq shapeKeys)
        THEN Returned([i \in 1..Len(shape) |-> Entry(shape[i].key, parsed(i))])
        ELSE Thrown(ErrorOf("Invalid JSON input for tool", None, None, None))

-----------------------------------------------------------------------------
(* The executor table and buildTools: src/unnamed/part_003 lines 38-100, 167-183 *)

\* the keys of the TOOL_EXECUTORS object literal
ExecutorKeys == {"add_memory", "search_memories"}

\* names every object inherits from Object.prototype
ObjectPrototypeKeys == {"toString", "constructor"}

\* TOOL_EXECUTORS[definition.name]: a property read, so a name the literal does
\* not hold is looked up on Object.prototype
TOOL_EXECUTORS(name) ==
    IF name \in ExecutorKeys THEN Some(name)
    ELSE IF name \in ObjectPrototypeKeys THEN Some("Object.prototype")
    ELSE None

\* buildTools(definitions): definitions.map throws at the first definition
\* that has no executor or whose parameters cannot be built
BuildTool(definition, index) ==
    LET executor == TOOL_EXECUTORS(definition.name)
    IN  IF executor = None
        THEN Thrown(ErrorOf("Unsupported tool name at index ${index}: ${definition.name}",
                            Some(index), Some(definition.name), None))
        ELSE LET parameters == BuildToolParameters(definition.parameters)
             IN  IF ~parameters.ok
                 THEN parameters
                 ELSE Returned([name |-> definition.name,
                                parameters |-> parameters.value,
                                execute |-> executor[1]])

BuildTools(definitions) ==
    LET results == [i \in 1..Len(definitions) |-> BuildTool(definitions[i], i - 1)]
        failed == {i \in 1..Len(results) : ~results[i].ok}
    IN  IF failed # {}
        THEN results[CHOOSE i \in failed : \A j \in failed : i <= j]
        ELSE Returned([i \in 1..Len(results) |-> results[i].value])

-----------------------------------------------------------------------------
(* Values of the handlers and of the run *)

UndefinedUserId == "<undefined>"
\* body.userId as sent: not a string, the empty string, or a user id
RawUserIds == {NonString, "", "u1"}

NoResponse == [kind |-> "none"]
\* NextResponse.json({error, status, statusText}, {status})
ErrorResponse(status, error) == [kind |-> "error", status |-> status, error |-> error]
\* NextResponse.json({reply, usage}): status 200
ReplyResponse(reply, usage) ==
    [kind |-> "reply", status |-> 200, reply |-> reply, usage |-> usage]
\* NextResponse.json({message}, {status})
MessageResponse(status, message) == [kind |-> "message", status |-> status, message |-> message]

NoOutput == [kind |-> "undefined"]
StringOutput(s) == [kind |-> "string", s |-> s]
DraftOutput(finalMessage) == [kind |-> "object", finalMessage |-> finalMessage]

NoError == [text |-> "", index |-> None, name |-> None, param |-> None]
NoToolCall == [index |-> 0, name |-> "", execute |-> "", args |-> <<>>, input |-> <<>>]

\* a tool result is a string: a template with the value it interpolates, or
\* the JSON text of an object
TextResult(text, arg) == [form |-> "text", text |-> text, arg |-> arg]
JsonResult(object) == [form |-> "json", object |-> object]
NoResult == [form |-> "none"]

NoUserIdText == TextResult("No userId provided; open settings and set a user id.", None)
EmptyMemoryText == TextResult("Cannot add empty memory.", None)
QueuedAck == JsonResult([ok |-> TRUE, queued |-> TRUE])
\* the Agents SDK turns an error of a tool invocation into the tool's output
SdkToolErrorText(error) ==
    TextResult("An error occurred while running the tool. Please try again. Error: ${error}",
               Some(error.text))

\* the second tool invocation of a model response: not there, invoked,
\* awaiting the store, returned
NoParallel == [state |-> "none", execute |-> "", input |-> <<>>, result |-> NoResult]
SecondSearch ==
    [state |-> "invoked", execute |-> "search_memories",
     input |-> <<Entry("query", StringValue("video")), Entry("limit", NumberValue(2))>>,
     result |-> NoResult]

NoExec == [tool |-> "", invoked |-> FALSE, storeCalls |-> 0, storeFailed |-> FALSE,
           clientFailed |-> FALSE, queuedId |-> 0, res |-> None]

\* reasons a call to the memory store fails with
StoreFailures == {"fetch failed"}
ClientFailure == "Mem0 API key is required"

\* memory items as the store returns them: an object given by the entries at
\* its property paths (memory, data.memory, text, content, id), a raw string,
\* or null
MemoryOf(fields) == [kind |-> "object", fields |-> fields, s |-> ""]
MemoryObject(field, s) == MemoryOf(<<Entry(field, StringValue(s))>>)
MemoryString(s) == [kind |-> "string", fields |-> <<>>, s |-> s]
NullItem == [kind |-> "null", fields |-> <<>>, s |-> ""]

\* a value of the store's response: an array of memory items, or a value
\* Array.isArray rejects
ArrayOf(items) == [kind |-> "array", items |-> items]
NotAnArray == [kind |-> "string"]
\* the store's answer to a search: a raw array (ArrayOf), an object with
\* fields, or null
SearchAnswer(fields) == [kind |-> "object", fields |-> fields]
NullAnswer == [kind |-> "null"]

SearchAnswers ==
    { SearchAnswer(<<Entry("results", ArrayOf(<<MemoryObject("memory", "likes CTV")>>))>>),
      ArrayOf(<<MemoryString("prefers video"), MemoryObject("text", "likes CTV")>>),
      SearchAnswer(<<Entry("message", NotAnArray)>>) }

\* what the store may put under one key of its answer
FieldChoices(key) ==
    { <<>>, <<Entry(key, NotAnArray)>>, <<Entry(key, ArrayOf(<<>>))>>,
      <<Entry(key, ArrayOf(<<MemoryObject("memory", key)>>))>> }

\* every answer: a raw array, null, and the objects with each combination of
\* results, memories and data
AllSearchAnswers ==
    { ArrayOf(<<MemoryString("raw")>>), ArrayOf(<<>>), NullAnswer }
    \cup { SearchAnswer(r \o m \o d) : r \in FieldChoices("results"),
                                        m \in FieldChoices("memories"),
                                        d \in FieldChoices("data") }

\* argument objects a model response may carry
ArgObjects ==
    { <<Entry("text", StringValue("likes CTV"))>>,
      <<Entry("text", StringValue("  "))>>,
      <<Entry("text", StringValue(""))>>,
      <<Entry("text", StringValue("likes CTV")), Entry("extra", BooleanValue(TRUE))>>,
      <<Entry("query", StringValue("CTV")), Entry("limit", NumberValue(2))>>,
      <<Entry("query", StringValue("CTV")), Entry("limit", NumberValue(3))>>,
      <<Entry("query", StringValue("CTV"))>>,
      <<Entry("query", StringValue("CTV")), Entry("limit", NumberValue(4)),
        Entry("extra", StringValue("x"))>>,
      <<>> }

-----------------------------------------------------------------------------
(* The memory tool executors: src/unnamed/part_003 lines 38-100 (chat) and  *)
(* src/unnamed/part_004 lines 47-83 (push)                                  *)

\* what one synchronous stretch of an executor did: the string it returned
\* (NoResult while it awaits the store), the write it queued, the store call
\* it started
Outcome(result, queue, storeCall, clientFailed) ==
    [result |-> result, queue |-> queue, storeCall |-> storeCall,
     clientFailed |-> clientFailed]

\* String(input.text ?? "")
TextOf(input) ==
    IF ~HasKey(input, "text") THEN ""
    ELSE IF ValueAt(input, "text").t = "string" THEN ValueAt(input, "text").s
    ELSE "<stringified>"

FailedToAdd(reason) == TextResult("Failed to add memory: ${reason}", Some(reason))
FailedToSearch(reason) == TextResult("Failed to search memories: ${reason}", Some(reason))
PushNoUserId == JsonResult([ok |-> FALSE, error |-> "No userId in context."])
PushSearchFailed(reason) == JsonResult([ok |-> FALSE, error |-> reason])

\* an add_memory that would reach for the store before it looks at the user id
AddMemoryStoreFirst(input, contextUserId, clientOk) ==
    IF ~clientOk THEN Outcome(FailedToAdd(ClientFailure), None, FALSE, TRUE)
    ELSE Outcome(QueuedAck, Some(TextOf(input)), FALSE, FALSE)

\* an executor that would forget .trim() and refuse the empty text only
AddMemoryUntrimmed(input, contextUserId, clientOk) ==
    IF contextUserId = UndefinedUserId
    THEN Outcome(NoUserIdText, None, FALSE, FALSE)
    ELSE IF ~clientOk
    THEN Outcome(FailedToAdd(ClientFailure), None, FALSE, TRUE)
    ELSE IF TextOf(input) = ""
    THEN Outcome(EmptyMemoryText, None, FALSE, FALSE)
    ELSE Outcome(QueuedAck, Some(TextOf(input)), FALSE, FALSE)

\* TOOL_EXECUTORS.add_memory, lines 39-65.  clientOk: getMem0() returned a client
AddMemory(input, contextUserId, clientOk) ==
    IF contextUserId = UndefinedUserId
    THEN Outcome(NoUserIdText, None, FALSE, FALSE)
    ELSE IF ~clientOk
    THEN Outcome(FailedToAdd(ClientFailure), None, FALSE, TRUE)
    ELSE IF TextOf(input) \in BlankStrings
    THEN Outcome(EmptyMemoryText, None, FALSE, FALSE)
    ELSE Outcome(QueuedAck, Some(TextOf(input)), FALSE, FALSE)

\* TOOL_EXECUTORS.search_memories up to its await, lines 66-72
SearchMemoriesStart(contextUserId, clientOk) ==
    IF contextUserId = UndefinedUserId
    THEN Outcome(NoUserIdText, None, FALSE, FALSE)
    ELSE IF ~clientOk
    THEN Outcome(FailedToSearch(ClientFailure), None, FALSE, TRUE)
    ELSE Outcome(NoResult, None, TRUE, FALSE)

\* searchMemoriesTool.execute up to its await, src/unnamed/part_004 lines 52-57
PushSearchMemoriesStart(contextUserId, clientOk) ==
    IF contextUserId = UndefinedUserId
    THEN Outcome(PushNoUserId, None, FALSE, FALSE)
    ELSE IF ~clientOk
    THEN Outcome(PushSearchFailed(ClientFailure), None, FALSE, TRUE)
    ELSE Outcome(NoResult, None, TRUE, FALSE)

\* Array.isArray(raw?.key)
IsArrayAt(raw, key) ==
    raw.kind = "object" /\ HasKey(raw.fields, key) /\ ValueAt(raw.fields, key).kind = "array"

\* a normalisation that looks under data before results
ItemsOfDataFirst(raw) ==
    IF raw.kind = "array" THEN raw.items
    ELSE IF IsArrayAt(raw, "data") THEN ValueAt(raw.fields, "data").items
    ELSE IF IsArrayAt(raw, "results") THEN ValueAt(raw.fields, "results").items
    ELSE IF IsArrayAt(raw, "memories") THEN ValueAt(raw.fields, "memories").items
    ELSE <<>>

\* the envelope normalisation: part_003 lines 73-79, part_004 lines 58-63 and
\* 253-261
ItemsOf(raw) ==
    IF raw.kind = "array" THEN raw.items
    ELSE IF IsArrayAt(raw, "results") THEN ValueAt(raw.fields, "results").items
    ELSE IF IsArrayAt(raw, "memories") THEN ValueAt(raw.fields, "memories").items
    ELSE IF IsArrayAt(raw, "data") THEN ValueAt(raw.fields, "data").items
    ELSE <<>>

\* Array.prototype.slice(0, end) for a number end kept as twice its value
Slice(items, twiceEnd) ==
    LET end == IF twiceEnd >= 0 THEN twiceEnd \div 2 ELSE -((-twiceEnd) \div 2)
        stop == IF end < 0 THEN (IF Len(items) + end > 0 THEN Len(items) + end ELSE 0)
                ELSE IF end < Len(items) THEN end ELSE Len(items)
    IN  SubSeq(items, 1, stop)

\* JSON.stringify(m): a string made of the item
JsonStringify(m) == [t |-> "string", s |-> "${JSON.stringify(m)}", of |-> m]

\* m?.memory ?? m?.data?.memory ?? m?.text ?? m?.content ??
\* (typeof m === "string" ? m : JSON.stringify(m)), part_003 lines 83-90
Summary(m) ==
    LET field == IF m.kind = "object"
                 THEN Coalesce(<<AtPath(m.fields, "memory"), AtPath(m.fields, "data.memory"),
                                 AtPath(m.fields, "text"), AtPath(m.fields, "content")>>)
                 ELSE UndefinedValue
    IN  IF field # UndefinedValue THEN field
        ELSE IF m.kind = "string" THEN StringValue(m.s)
        ELSE JsonStringify(m)

\* lines 81-95: limit, summaries and the JSON text returned
SearchResult(input, answer) ==
    LET items == ItemsOf(answer)
        hasLimit == HasKey(input, "limit") /\ ValueAt(input, "limit").t = "number"
                    /\ ValueAt(input, "limit").twice # 0
        limited == IF hasLimit THEN Slice(items, ValueAt(input, "limit").twice) ELSE items
    IN  JsonResult([ok |-> TRUE, count |-> Len(items),
                    memories |-> [i \in 1..Len(limited) |-> Summary(limited[i])]])

\* src/unnamed/part_004 lines 58-78: items.slice(0, input.limit)
PushSearchResult(input, answer) ==
    LET items == ItemsOf(answer)
        limited == Slice(items, ValueAt(input, "limit").twice)
    IN  JsonResult([ok |-> TRUE, count |-> Len(items),
                    memories |-> [i \in 1..Len(limited) |-> Summary(limited[i])]])

\* a catch that would return a fixed text and lose the reason
SearchFailureWithoutReason(execute, reason) ==
    TextResult("Failed to search memories", None)

\* the catch blocks: part_003 lines 96-98, part_004 lines 79-81
SearchFailureResult(execute, reason) ==
    IF execute = "push_search_memories" THEN PushSearchFailed(reason)
    ELSE FailedToSearch(reason)

\* searchMemoriesParams, src/unnamed/part_004 lines 32-45
PushSearchParams ==
    ZodObject(<<Entry("query", [zod |-> "string", min |-> None, max |-> None]),
                Entry("limit", [zod |-> "default", twice |-> 20,
                                inner |-> [zod |-> "number", int |-> TRUE,
                                           min |-> Some(1), max |-> Some(25)]])>>)

\* the tools of the nudge agent that run in this process (webSearchTool() is
\* a hosted tool: the provider runs it inside a model call)
PushTools ==
    <<[name |-> "search_memories", parameters |-> PushSearchParams,
       execute |-> "push_search_memories"]>>

-----------------------------------------------------------------------------
(* The settings panel's tool definitions: src/app/ui/page.tsx *)

\* cloneToolDefinition, lines 584-597
cloneToolDefinition(def) ==
    LET propertiesEntries == ClonedProperties(def.parameters.properties)
        propertyKeys == Keys(propertiesEntries)
    IN  [def EXCEPT !.parameters.required = propertyKeys,
                    !.parameters.properties = propertiesEntries]

\* cloneToolDefinitions, lines 599-601
cloneToolDefinitions(defs) == [i \in 1..Len(defs) |-> cloneToolDefinition(defs[i])]

\* validateToolDefinitionsForUI for one tool, lines 605-642: the message, or None
ValidateToolForUI(tool) ==
    IF tool.name \in BlankStrings THEN Some("needs a name.")
    ELSE IF tool.description \in BlankStrings THEN Some("needs a description.")
    ELSE IF tool.parameters.kind # "object" \/ tool.parameters.type # "object"
    THEN Some("is missing parameter definitions.")
    ELSE IF Len(tool.parameters.properties) = 0
    THEN Some("must have at least one parameter.")
    ELSE
      LET propertyKeys == Keys(tool.parameters.properties)
          requiredSet == IF Len(tool.parameters.required) > 0
                         THEN Range(tool.parameters.required)
                         ELSE Range(propertyKeys)
      IN  IF Cardinality(requiredSet) # Len(propertyKeys)
          THEN Some("must set every parameter as required.")
          ELSE IF \E k \in Range(propertyKeys) : k \notin requiredSet
          THEN Some("must be marked as required.")
          ELSE IF \E i \in 1..Len(propertyKeys) :
                    tool.parameters.properties[i].value.kind # "object"
          THEN Some("has an invalid parameter")
          ELSE IF \E i \in 1..Len(propertyKeys) :
                    tool.parameters.properties[i].value.type = ""
          THEN Some("is missing a type.")
          ELSE None

\* validateToolDefinitionsForUI, lines 603-645: the first tool's message
validateToolDefinitionsForUI(defs) ==
    LET failed == {i \in 1..Len(defs) : ValidateToolForUI(defs[i]) # None}
    IN  IF failed = {} THEN None
        ELSE ValidateToolForUI(defs[CHOOSE i \in failed : \A j \in failed : i <= j])

\* values typed into the panel's inputs
NameEdits == {"bogus", ""}
DescriptionEdits == {""}
ParameterDescriptionEdits == {"edited"}

\* the name updater, lines 1190-1193
WithNameUpdater(current, value) == [current EXCEPT !.name = value]

\* the description updater, lines 1205-1208
WithDescriptionUpdater(current, value) == [current EXCEPT !.description = value]

\* the parameter description updater, lines 1252-1269
WithParameterDescriptionUpdater(current, propKey, value) ==
    LET properties == current.parameters.properties
        nextProperties ==
          [i \in 1..Len(properties) |->
             IF properties[i].key = propKey
             THEN Entry(propKey, [properties[i].value EXCEPT !.description = value])
             ELSE properties[i]]
    IN  [current EXCEPT !.parameters.properties = nextProperties,
                        !.parameters.required = Keys(nextProperties)]

-----------------------------------------------------------------------------
(* Messages of a chat request and the history made of them:                 *)
(* src/unnamed/part_003 lines 255, 333-343                                  *)

\* one entry of body.messages: an object with its role and content (either
\* may be NonString), or a value that is no object (null, a number)
MessageOf(role, content) == [kind |-> "object", role |-> role, content |-> content]

\* body.messages: not an array (absent included), or an array of entries
NonArrayMessages == [kind |-> "nonarray"]
ArrayMessages(items) == [kind |-> "array", items |-> items]

\* the message list of a request of the chat page: one user message
DefaultMessages == ArrayMessages(<<MessageOf("user", "hi")>>)

\* message lists a client may send
MessageLists ==
    { NonArrayMessages,
      ArrayMessages(<<>>),
      ArrayMessages(<<NonObject, MessageOf(NonString, "hi"), MessageOf("user", NonString)>>),
      DefaultMessages,
      ArrayMessages(<<MessageOf("user", "hi"), MessageOf("assistant", "Hi there"),
                      NonObject, MessageOf("system", "be brief"), MessageOf("user", "")>>) }

\* an item of the run's input or of its context
Item(role, content) == [role |-> role, content |-> content]

\* Array.isArray(body?.messages) ? body.messages : [], line 255
MessagesOf(messages) == IF messages.kind = "array" THEN messages.items ELSE <<>>

\* the filter of lines 335-338
IsWellFormedMessage(m) ==
    m.kind = "object" /\ m.role # NonString /\ m.content # NonString

\* the map of lines 339-343: assistantMsg for an assistant, userMsg otherwise
ItemOfMessage(m) ==
    IF m.role = "assistant" THEN Item("assistant", m.content) ELSE Item("user", m.content)

\* messages.filter(...).map(...), lines 334-343
ChatHistory(messages) ==
    LET kept == SelectSeq(MessagesOf(messages), IsWellFormedMessage)
    IN  [i \in 1..Len(kept) |-> ItemOfMessage(kept[i])]

\* [userMsg(userSeed)], part_004 lines 168-172
PushHistory == <<Item("user", "${userSeed}")>>

-----------------------------------------------------------------------------
(* Initial state *)

\* localStorage.getItem(STORAGE_KEY): null when nothing is stored
NoItem == "<null>"
\* a localStorage whose methods throw
StorageThrows == "<throws>"

Init ==
    /\ env \in [openaiKey : BOOLEAN, mem0Key : BOOLEAN]
    /\ route = "chat"
    /\ pc = "idle"
    /\ body = [userId |-> NonString, toolDefinitions |-> AbsentPayload,
               messages |-> NonArrayMessages]
    /\ userId = UndefinedUserId
    /\ toolDefinitions = <<>>
    /\ toolsInstance = <<>>
    /\ response = NoResponse
    /\ runState = "Idle"
    /\ currentTurn = 0
    /\ modelCalls = 0
    /\ toolCall = NoToolCall
    /\ exec = NoExec
    /\ toolResult = NoResult
    /\ context = <<>>
    /\ finalOutput = NoOutput
    /\ runError = NoError
    /\ rawResponses = <<>>
    /\ parallelCall = NoParallel
    /\ nextWriteId = 1
    /\ immediates = <<>>
    /\ inflight = {}
    /\ store = {}
    /\ errorLog = <<>>
    /\ uiDefs = cloneToolDefinitions(DEFAULT_TOOL_DEFINITIONS)
    /\ uiError = validateToolDefinitionsForUI(DEFAULT_TOOL_DEFINITIONS)
    /\ draft = ""
    /\ sendingRef = FALSE
    /\ pageMessages = <<>>
    /\ fetches = 0
    /\ sitePassword = ""
    /\ localStorage = NoItem
    /\ authorized = TRUE
    /\ effect = "mounted"
    /\ cancelled = FALSE
    /\ prompts = <<>>

-----------------------------------------------------------------------------
(* The chat handler up to the run: src/unnamed/part_003 lines 252-343 *)

\* typeof body?.userId === "string" && body.userId ? body.userId : undefined
UserIdOf(raw) == IF raw = NonString \/ raw = "" THEN UndefinedUserId ELSE raw

\* a request arrives and its body is read: lines 254-262 (chat), part_004
\* lines 132-134 (push)
ReceiveWithMessages(r, rawUserId, payload, messages) ==
    /\ pc = "idle"
    /\ route' = r
    /\ body' = [userId |-> rawUserId, toolDefinitions |-> payload, messages |-> messages]
    /\ userId' = UserIdOf(rawUserId)
    /\ pc' = "parsed"
    /\ UNCHANGED <<env, toolDefinitions, toolsInstance, response, runVars, writeVars, uiVars>>

\* a request with the message list of the chat page
Receive(r, rawUserId, payload) == ReceiveWithMessages(r, rawUserId, payload, DefaultMessages)

\* lines 264-279
ChatNormalize ==
    /\ route = "chat" /\ pc = "parsed"
    /\ IF body.toolDefinitions.kind = "undefined"
       THEN /\ toolDefinitions' = DEFAULT_TOOL_DEFINITIONS
            /\ pc' = "normalized"
            /\ UNCHANGED response
       ELSE LET normalized == NormalizeToolDefinitions(body.toolDefinitions)
            IN  IF normalized.ok
                THEN /\ toolDefinitions' = normalized.value
                     /\ pc' = "normalized"
                     /\ UNCHANGED response
                ELSE /\ response' = ErrorResponse(400, normalized.error)
                     /\ pc' = "responded"
                     /\ UNCHANGED toolDefinitions
    /\ UNCHANGED <<env, route, body, userId, toolsInstance, runVars, writeVars, uiVars>>

\* lines 281-294
\* a handler that would test the model credential before it builds the tools
ChatBuildToolsAfterKey ==
    /\ route = "chat" /\ pc = "normalized"
    /\ LET built == BuildTools(toolDefinitions)
       IN  IF ~env.openaiKey
           THEN /\ response' = ErrorResponse(500, ErrorOf("Missing OPENAI_API_KEY",
                                                          None, None, None))
                /\ pc' = "responded"
                /\ UNCHANGED toolsInstance
           ELSE IF built.ok
           THEN /\ toolsInstance' = built.value
                /\ pc' = "built"
                /\ UNCHANGED response
           ELSE /\ response' = ErrorResponse(400, built.error)
                /\ pc' = "responded"
                /\ UNCHANGED toolsInstance
    /\ UNCHANGED <<env, route, body, userId, toolDefinitions, runVars, writeVars, uiVars>>

ChatBuildTools ==
    /\ route = "chat" /\ pc = "normalized"
    /\ LET built == BuildTools(toolDefinitions)
       IN  IF built.ok
           THEN /\ toolsInstance' = built.value
                /\ pc' = "built"
                /\ UNCHANGED response
           ELSE /\ response' = ErrorResponse(400, built.error)
                /\ pc' = "responded"
                /\ UNCHANGED toolsInstance
    /\ UNCHANGED <<env, route, body, userId, toolDefinitions, runVars, writeVars, uiVars>>

MissingOpenAiKey == ErrorOf("Missing OPENAI_API_KEY", None, None, None)

\* a handler that would go on without the model credential
ChatCheckKeySkipped ==
    /\ route = "chat" /\ pc = "built"
    /\ pc' = "ready"
    /\ UNCHANGED <<env, route, body, userId, toolDefinitions, toolsInstance, response,
                   runVars, writeVars, uiVars>>

\* lines 296-305
ChatCheckKey ==
    /\ route = "chat" /\ pc = "built"
    /\ IF env.openaiKey
       THEN pc' = "ready" /\ UNCHANGED response
       ELSE pc' = "responded" /\ response' = ErrorResponse(500, MissingOpenAiKey)
    /\ UNCHANGED <<env, route, body, userId, toolDefinitions, toolsInstance,
                   runVars, writeVars, uiVars>>

MissingUserId == ErrorOf("Missing userId in request body.", None, None, None)

\* the push handler up to the run: src/unnamed/part_004 lines 136-170
PushPrepare ==
    /\ route = "push" /\ pc = "parsed"
    /\ IF userId = UndefinedUserId
       THEN /\ response' = ErrorResponse(400, MissingUserId)
            /\ pc' = "responded"
            /\ UNCHANGED toolsInstance
       ELSE /\ toolsInstance' = PushTools
            /\ pc' = "ready"
            /\ UNCHANGED response
    /\ UNCHANGED <<env, route, body, userId, toolDefinitions, runVars, writeVars, uiVars>>

-----------------------------------------------------------------------------
(* The agent run: run(agent, history, {context, maxTurns}) of the Agents SDK, *)
(* called at src/unnamed/part_003 lines 346-349 and part_004 lines 172-175.   *)
(* Each turn the SDK counts the turn, throws MaxTurnsExceededError when the   *)
(* count is above maxTurns, and otherwise calls the model; a response with a  *)
(* tool call has the tool invoked and its output appended before the next     *)
(* turn; a response without one ends the run with its final output.           *)

\* the output items of a model response: a call of a function tool, a call of
\* the hosted web search the provider ran while it made the response, a message
FunctionCall(name) == [type |-> "function_call", name |-> name]
WebSearchCall == [type |-> "hosted_tool_call", name |-> "web_search_call"]
MessageOutput == [type |-> "message", name |-> ""]

\* a model response as result.rawResponses holds it: usage is None when the
\* response has no usage, else the counters it reports, each optional.  The
\* chat handler reads nothing else of a response, so the output items are kept
\* only for the responses of the runs whose order of calls is followed.
RawResponse(usage) == [usage |-> usage]
FollowedResponse(raw) == [usage |-> raw.usage, output |-> <<>>]
WithOutput(raw, item) ==
    IF "output" \in DOMAIN raw THEN [raw EXCEPT !.output = Append(@, item)] ELSE raw
UsageOf(inputTokens, outputTokens, cachedTokens) ==
    (IF inputTokens = None THEN <<>>
     ELSE <<[key |-> "inputTokens", value |-> inputTokens[1]]>>)
    \o (IF outputTokens = None THEN <<>>
        ELSE <<[key |-> "outputTokens", value |-> outputTokens[1]]>>)
    \o (IF cachedTokens = None THEN <<>>
        ELSE <<[key |-> "cachedTokens", value |-> cachedTokens[1]]>>)

\* the responses the model may give
RawResponses ==
    { RawResponse(None),
      RawResponse(Some(UsageOf(Some(3), Some(2), Some(1)))),
      RawResponse(Some(UsageOf(None, Some(4), None))),
      RawResponse(Some(UsageOf(Some(5), Some(0), Some(0)))) }

TypicalRawResponses == { RawResponse(Some(UsageOf(Some(3), Some(2), Some(0)))) }

\* the responses of the nudge agent, whose tools are search_memories and
\* webSearchTool() (part_004 lines 153-156): with and without a web search
NudgeResponses ==
    {FollowedResponse(raw) : raw \in TypicalRawResponses}
    \cup {WithOutput(FollowedResponse(raw), WebSearchCall) : raw \in TypicalRawResponses}

-----------------------------------------------------------------------------
(* The earlier chat handler, src/unnamed/part_002: the agent with get_time,  *)
(* toAgentHistory, pickUsage and the usage snapshots of the response         *)

\* a pickUsage that would read 0 where no variant of a counter is present
pickUsageZeroFilled(snapshot) ==
    LET orZero(v) == IF v.t = "undefined" THEN NumberValue(0) ELSE v
        input_tokens == orZero(Coalesce(<<AtPath(snapshot, "input_tokens"),
                                          AtPath(snapshot, "inputTokens")>>))
        output_tokens == orZero(Coalesce(<<AtPath(snapshot, "output_tokens"),
                                           AtPath(snapshot, "outputTokens")>>))
    IN  [input_tokens |-> input_tokens, output_tokens |-> output_tokens,
         total_tokens |-> orZero(Coalesce(<<AtPath(snapshot, "total_tokens"),
                                            AtPath(snapshot, "totalTokens")>>)),
         cached_tokens |-> orZero(Coalesce(
             <<AtPath(snapshot, "details.input_tokens_details.cached_tokens"),
               AtPath(snapshot, "input_tokens_details.cached_tokens"),
               AtPath(snapshot, "inputTokensDetails.cachedTokens"),
               AtPath(snapshot, "inputTokensDetails[0].cached_tokens")>>))]

\* pickUsage(snapshot), part_002 lines 87-108
pickUsage(snapshot) ==
    LET input_tokens == Coalesce(<<AtPath(snapshot, "input_tokens"),
                                   AtPath(snapshot, "inputTokens")>>)
        output_tokens == Coalesce(<<AtPath(snapshot, "output_tokens"),
                                    AtPath(snapshot, "outputTokens")>>)
        sum == IF input_tokens.t = "number" /\ output_tokens.t = "number"
               THEN NumberValue(input_tokens.twice + output_tokens.twice)
               ELSE UndefinedValue
    IN  [input_tokens |-> input_tokens, output_tokens |-> output_tokens,
         total_tokens |-> Coalesce(<<AtPath(snapshot, "total_tokens"),
                                     AtPath(snapshot, "totalTokens"), sum>>),
         cached_tokens |-> Coalesce(
             <<AtPath(snapshot, "details.input_tokens_details.cached_tokens"),
               AtPath(snapshot, "input_tokens_details.cached_tokens"),
               AtPath(snapshot, "inputTokensDetails.cachedTokens"),
               AtPath(snapshot, "inputTokensDetails[0].cached_tokens")>>)]

\* resp?.usage ?? resp?.response?.usage ?? {}, lines 170-171
RawUsageOf(resp) ==
    IF resp.usage # None THEN resp.usage[1]
    ELSE IF "response" \in DOMAIN resp /\ resp.response # None THEN resp.response[1]
    ELSE <<>>

SnapshotOf(i, resp) ==
    LET picked == pickUsage(RawUsageOf(resp))
    IN  [index |-> i, input_tokens |-> picked.input_tokens,
         output_tokens |-> picked.output_tokens, cached_tokens |-> picked.cached_tokens,
         total_tokens |-> picked.total_tokens]

\* snapshots of the responses that carry usage only
usageSnapshotsOfUsageOnly(responses) ==
    LET kept == SelectSeq(responses, LAMBDA resp : RawUsageOf(resp) # <<>>)
    IN  [i \in 1..Len(kept) |-> SnapshotOf(i - 1, kept[i])]

\* the loop of lines 160-183: one snapshot per entry of result.rawResponses
usageSnapshots(responses) ==
    [i \in 1..Len(responses) |-> SnapshotOf(i - 1, responses[i])]

\* usage objects as the provider and the SDK versions shape them
EarlierUsages ==
    { <<>>,
      <<Entry("input_tokens", NumberValue(6)), Entry("output_tokens", NumberValue(4))>>,
      <<Entry("inputTokens", NumberValue(6)), Entry("outputTokens", NumberValue(0)),
        Entry("totalTokens", NumberValue(18)),
        Entry("inputTokensDetails.cachedTokens", NumberValue(0))>>,
      <<Entry("input_tokens", NumberValue(2)), Entry("inputTokens", NumberValue(14)),
        Entry("output_tokens", NullValue), Entry("outputTokens", NumberValue(8)),
        Entry("input_tokens_details.cached_tokens", NumberValue(4)),
        Entry("details.input_tokens_details.cached_tokens", NumberValue(2))>>,
      <<Entry("input_tokens", NumberValue(0)), Entry("output_tokens", NumberValue(0)),
        Entry("total_tokens", NumberValue(0)),
        Entry("inputTokensDetails[0].cached_tokens", NumberValue(0))>>,
      <<Entry("input_tokens", StringValue("3")), Entry("output_tokens", NumberValue(4)),
        Entry("inputTokensDetails.cachedTokens", NullValue),
        Entry("inputTokensDetails[0].cached_tokens", NumberValue(12))>> }

\* the responses of the earlier handler's runs: usage at the top level, under
\* response, or nowhere
EarlierRawResponses ==
    {[usage |-> Some(u), response |-> None] : u \in EarlierUsages}
    \cup {[usage |-> None, response |-> Some(u)] : u \in EarlierUsages \ {<<>>}}
    \cup {[usage |-> None, response |-> None]}

\* toAgentHistory(msgs), lines 72-84, for message objects whose content is a
\* string: entries without content and roles other than user, assistant and
\* system are left out
toAgentHistory(messages) ==
    LET kept == SelectSeq(MessagesOf(messages),
                          LAMBDA m : m.content # "" /\ m.role \in {"user", "assistant", "system"})
    IN  [i \in 1..Len(kept) |-> Item(kept[i].role, kept[i].content)]

EarlierMessageLists ==
    { ArrayMessages(<<>>), DefaultMessages,
      ArrayMessages(<<MessageOf("user", "")>>),
      ArrayMessages(<<MessageOf("system", "be brief"), MessageOf("tool", "x"),
                      MessageOf("user", "hi")>>) }

\* getTimeTool, lines 50-61
GetTimeTools ==
    <<[name |-> "get_time",
       parameters |-> ZodObject(<<Entry("timezoneHint",
                                        [zod |-> "string", min |-> None, max |-> None])>>),
       execute |-> "get_time"]>>

\* `Current time: ${now}${note}`, lines 57-59
GetTimeResult(input) ==
    TextResult("Current time: ${now}${note}",
               IF ValueAt(input, "timezoneHint").s = "" THEN None
               ELSE Some(ValueAt(input, "timezoneHint").s))

NoMessagesProvided == ErrorOf("No messages provided", None, None, None)

\* lines 128-131 and 224-238: the response of the earlier handler
EarlierResponse(output, responses) ==
    LET snapshots == usageSnapshots(responses)
        finalUsage == IF snapshots = <<>> THEN None ELSE Some(snapshots[Len(snapshots)])
    IN  [kind |-> "reply", status |-> 200,
         reply |-> IF output.kind = "string" THEN output.s ELSE "${JSON.stringify(finalOutput)}",
         usage |-> IF finalUsage = None THEN <<>>
                   ELSE <<[promptTokens |-> finalUsage[1].input_tokens,
                           completionTokens |-> finalUsage[1].output_tokens,
                           cachedTokens |-> finalUsage[1].cached_tokens,
                           totalTokens |-> finalUsage[1].total_tokens]>>,
         usageSnapshots |-> snapshots]

\* a ceiling one turn too high
MaxTurnsOffByOne(r) == IF r = "chat" THEN 9 ELSE 11

\* maxTurns: 8 (part_003 line 348), maxTurns: 10 (part_004 line 174)
MaxTurns(r) == IF r = "chat" THEN 8 ELSE 10

MaxTurnsExceeded == ErrorOf("Max turns (${maxTurns}) exceeded", None, None, None)
UpstreamError == ErrorOf("${upstream error message}", None, None, None)
InvalidOutput == ErrorOf("Invalid output type", None, None, None)

\* final texts a chat model response may carry
ChatOutputs == {StringOutput(""), StringOutput("Hi there")}
\* result.finalOutput of the nudge run as the handler reads it (part_004
\* lines 178-183): a DraftOutput, a plain string, or undefined
PushOutputs ==
    { DraftOutput(""), DraftOutput("Next, cluster those terms."),
      StringOutput("Draft: cluster those terms."), StringOutput(""), NoOutput }

\* the handler's history: part_003 lines 334-343, part_004 line 172
History(r, requestBody) ==
    IF r = "chat" THEN ChatHistory(requestBody.messages)
    ELSE IF r = "earlier" THEN toAgentHistory(requestBody.messages)
    ELSE PushHistory

\* an item that would enter the context as input of the user
GeneratedAsUser(role) == Item("user", "${generated}")

\* an item the run itself adds to its context: a model output, a tool call,
\* a tool result
Generated(role) == Item(role, "${generated}")

\* run() starts: turn 1 is counted and the first model request is issued
StartRun ==
    /\ pc = "ready"
    /\ pc' = "running"
    /\ runState' = "Requesting"
    /\ currentTurn' = 1
    /\ modelCalls' = 1
    /\ context' = History(route, body)
    /\ rawResponses' = <<>>
    /\ parallelCall' = NoParallel
    /\ UNCHANGED <<env, route, body, userId, toolDefinitions, toolsInstance, response,
                   toolCall, exec, toolResult, finalOutput, runError, writeVars, uiVars>>

\* the model answers with a final output
ModelReturnsFinalWith(responses) ==
    /\ pc = "running" /\ runState = "Requesting"
    /\ env.openaiKey
    /\ \E out \in (IF route = "push" THEN PushOutputs ELSE ChatOutputs) :
          finalOutput' = out
    /\ \E raw \in responses :
          rawResponses' = Append(rawResponses, WithOutput(raw, MessageOutput))
    /\ runState' = "Completed"
    /\ context' = Append(context, Generated("assistant"))
    /\ UNCHANGED <<env, handlerVars, currentTurn, modelCalls, toolCall, exec, toolResult,
                   runError, parallelCall, writeVars, uiVars>>

ModelReturnsFinal == ModelReturnsFinalWith(TypicalRawResponses)

\* the model call fails, or (push) its final output does not pass outputType
ModelCallFails ==
    /\ pc = "running" /\ runState = "Requesting"
    /\ \E e \in (IF ~env.openaiKey THEN {UpstreamError}
                 ELSE IF route = "push" THEN {UpstreamError, InvalidOutput}
                 ELSE {UpstreamError}) :
          runError' = e
    /\ runState' = "Failed"
    /\ UNCHANGED <<env, handlerVars, currentTurn, modelCalls, toolCall, exec, toolResult,
                   context, finalOutput, rawResponses, parallelCall, writeVars, uiVars>>

\* the model answers with tool calls: one, or one and a second the SDK
\* invokes together with the first (seconds: what the second call may be,
\* NoParallel when the response has one call)
ModelCallsTools(argObjects, responses, seconds) ==
    /\ pc = "running" /\ runState = "Requesting"
    /\ env.openaiKey
    /\ \E i \in 1..Len(toolsInstance), args \in argObjects, second \in seconds :
          /\ toolsInstance[i].execute = "add_memory" => nextWriteId <= MaxWrites
          /\ second # NoParallel =>
                \E j \in 1..Len(toolsInstance) : toolsInstance[j].execute = second.execute
          /\ toolCall' = [index |-> i, name |-> toolsInstance[i].name,
                          execute |-> toolsInstance[i].execute,
                          args |-> args, input |-> <<>>]
          /\ parallelCall' = second
          /\ \E raw \in responses :
                LET first == WithOutput(raw, FunctionCall(toolsInstance[i].name))
                IN  rawResponses' =
                        Append(rawResponses,
                               IF second = NoParallel THEN first
                               ELSE WithOutput(first, FunctionCall(second.execute)))
          /\ context' = IF second = NoParallel
                        THEN Append(context, Generated("tool_call"))
                        ELSE context \o <<Generated("tool_call"), Generated("tool_call")>>
    /\ runState' = "ToolInvoked"
    /\ UNCHANGED <<env, handlerVars, currentTurn, modelCalls, exec, toolResult,
                   finalOutput, runError, writeVars, uiVars>>

\* the model answers with one tool call
ModelCallsToolFrom(argObjects, responses) ==
    ModelCallsTools(argObjects, responses, {NoParallel})

ModelCallsTool == ModelCallsToolFrom(ArgObjects, TypicalRawResponses)

\* getMem0(), part_003 lines 25-31: whether new MemoryClient({apiKey}) returns
\* a client; with no MEM0_API_KEY the key is "" and the constructor may throw,
\* which the executors' catch blocks (lines 62-64, 96-98) turn into text
ClientOutcomes == IF env.mem0Key THEN {TRUE} ELSE {TRUE, FALSE}

ExecOf(name, out, id) ==
    [tool |-> name, invoked |-> TRUE,
     storeCalls |-> IF out.storeCall THEN 1 ELSE 0,
     storeFailed |-> FALSE, clientFailed |-> out.clientFailed,
     queuedId |-> id, res |-> None]

\* the SDK invokes the tool: the arguments are parsed with the tool's
\* parameters, then the executor runs up to its return or its first await
DispatchTool ==
    /\ pc = "running" /\ runState = "ToolInvoked"
    /\ LET tool == toolsInstance[toolCall.index]
           parsed == ZodParse(tool.parameters, toolCall.args)
       IN  IF ~parsed.ok
           THEN /\ toolResult' = SdkToolErrorText(parsed.error)
                /\ exec' = [NoExec EXCEPT !.tool = tool.name]
                /\ runState' = "ToolReturned"
                /\ UNCHANGED <<toolCall, nextWriteId, immediates>>
           ELSE
             /\ toolCall' = [toolCall EXCEPT !.input = parsed.value]
             /\ CASE tool.execute = "add_memory" ->
                       \E clientOk \in ClientOutcomes :
                         LET out == AddMemory(parsed.value, userId, clientOk)
                         IN  /\ toolResult' = out.result
                             /\ runState' = "ToolReturned"
                             /\ IF out.queue # None
                                THEN /\ immediates' =
                                          Append(immediates,
                                                 [id |-> nextWriteId, userId |-> userId,
                                                  text |-> out.queue[1]])
                                     /\ nextWriteId' = nextWriteId + 1
                                     /\ exec' = ExecOf(tool.name, out, nextWriteId)
                                ELSE /\ UNCHANGED <<immediates, nextWriteId>>
                                     /\ exec' = ExecOf(tool.name, out, 0)
                  [] tool.execute \in {"search_memories", "push_search_memories"} ->
                       \E clientOk \in ClientOutcomes :
                         LET out == IF tool.execute = "search_memories"
                                    THEN SearchMemoriesStart(userId, clientOk)
                                    ELSE PushSearchMemoriesStart(userId, clientOk)
                         IN  /\ toolResult' = out.result
                             /\ runState' = IF out.storeCall THEN "AwaitingStore"
                                            ELSE "ToolReturned"
                             /\ exec' = ExecOf(tool.name, out, 0)
                             /\ UNCHANGED <<immediates, nextWriteId>>
                  [] tool.execute = "get_time" ->
                       /\ toolResult' = GetTimeResult(parsed.value)
                       /\ runState' = "ToolReturned"
                       /\ exec' = [NoExec EXCEPT !.tool = tool.name, !.invoked = TRUE]
                       /\ UNCHANGED <<immediates, nextWriteId>>
                  [] OTHER ->
                       \* a function of Object.prototype called as the executor
                       /\ toolResult' = TextResult("${String(what the inherited function returns)}", None)
                       /\ runState' = "ToolReturned"
                       /\ exec' = [NoExec EXCEPT !.tool = tool.name, !.invoked = TRUE]
                       /\ UNCHANGED <<immediates, nextWriteId>>
    /\ UNCHANGED <<env, handlerVars, currentTurn, modelCalls, context, finalOutput,
                   runError, rawResponses, parallelCall, inflight, store, errorLog, uiVars>>

\* a store client that would hold a search back until the writes are applied
StoreAnswersAfterWrites(answers) ==
    /\ pc = "running" /\ runState = "AwaitingStore"
    /\ immediates = <<>> /\ inflight = {}
    /\ \E answer \in answers :
          /\ toolResult' = SearchResult(toolCall.input, answer)
          /\ exec' = [exec EXCEPT !.res = Some(answer)]
    /\ runState' = "ToolReturned"
    /\ UNCHANGED <<env, handlerVars, currentTurn, modelCalls, toolCall, context,
                   finalOutput, runError, rawResponses, parallelCall, writeVars, uiVars>>

\* mem0.search settles: the executor resumes after its await with res, the
\* store's answer, or with the error the call threw
StoreAnswersFrom(answers) ==
    /\ pc = "running" /\ runState = "AwaitingStore"
    /\ \/ /\ env.mem0Key
          /\ \E answer \in answers :
                /\ toolResult' = IF toolCall.execute = "search_memories"
                                 THEN SearchResult(toolCall.input, answer)
                                 ELSE PushSearchResult(toolCall.input, answer)
                /\ exec' = [exec EXCEPT !.res = Some(answer)]
       \/ /\ \E reason \in StoreFailures :
                toolResult' = SearchFailureResult(toolCall.execute, reason)
          /\ exec' = [exec EXCEPT !.storeFailed = TRUE]
    /\ runState' = "ToolReturned"
    /\ UNCHANGED <<env, handlerVars, currentTurn, modelCalls, toolCall, context,
                   finalOutput, runError, rawResponses, parallelCall, writeVars, uiVars>>

StoreAnswers == StoreAnswersFrom(SearchAnswers)

\* the SDK invokes the second tool of the response while the first is still
\* running: its executor runs up to its return or its first await
DispatchParallel ==
    /\ pc = "running" /\ parallelCall.state = "invoked"
    /\ runState \in {"ToolInvoked", "AwaitingStore", "ToolReturned"}
    /\ \E clientOk \in ClientOutcomes :
          LET out == SearchMemoriesStart(userId, clientOk)
          IN  parallelCall' = [parallelCall EXCEPT
                                 !.state = IF out.storeCall THEN "awaiting" ELSE "returned",
                                 !.result = out.result]
    /\ UNCHANGED <<env, handlerVars, runState, currentTurn, modelCalls, toolCall, exec,
                   toolResult, context, finalOutput, runError, rawResponses, writeVars,
                   uiVars>>

\* mem0.search of the second tool settles
ParallelStoreAnswers ==
    /\ pc = "running" /\ parallelCall.state = "awaiting"
    /\ \/ /\ env.mem0Key
          /\ \E answer \in SearchAnswers :
                parallelCall' = [parallelCall EXCEPT
                                   !.state = "returned",
                                   !.result = SearchResult(parallelCall.input, answer)]
       \/ \E reason \in StoreFailures :
             parallelCall' = [parallelCall EXCEPT
                                !.state = "returned",
                                !.result = SearchFailureResult(parallelCall.execute, reason)]
    /\ UNCHANGED <<env, handlerVars, runState, currentTurn, modelCalls, toolCall, exec,
                   toolResult, context, finalOutput, runError, rawResponses, writeVars,
                   uiVars>>

\* the outputs of the response's tools as they enter the context
ToolOutputs ==
    IF parallelCall.state = "none" THEN <<Generated("tool_result")>>
    ELSE <<Generated("tool_result"), Generated("tool_result")>>

\* a loop that would go on once the first tool has returned
NextTurnWithoutWaiting ==
    /\ pc = "running" /\ runState = "ToolReturned"
    /\ currentTurn + 1 <= MaxTurns(route)
    /\ context' = Append(context, Generated("tool_result"))
    /\ currentTurn' = currentTurn + 1
    /\ modelCalls' = modelCalls + 1
    /\ runState' = "Requesting"
    /\ UNCHANGED <<env, handlerVars, toolCall, exec, toolResult, finalOutput, runError,
                   rawResponses, parallelCall, writeVars, uiVars>>

\* every tool of the response has returned: the run receives the outputs,
\* counts the next turn and issues the next model request
NextTurn ==
    /\ pc = "running" /\ runState = "ToolReturned"
    /\ parallelCall.state \in {"none", "returned"}
    /\ currentTurn + 1 <= MaxTurns(route)
    /\ context' = context \o ToolOutputs
    /\ parallelCall' = NoParallel
    /\ currentTurn' = currentTurn + 1
    /\ modelCalls' = modelCalls + 1
    /\ runState' = "Requesting"
    /\ UNCHANGED <<env, handlerVars, toolCall, exec, toolResult, finalOutput, runError,
                   rawResponses, writeVars, uiVars>>

\* the run receives the tool's output and the next turn is above maxTurns:
\* the SDK throws MaxTurnsExceededError
ExceedMaxTurns ==
    /\ pc = "running" /\ runState = "ToolReturned"
    /\ parallelCall.state \in {"none", "returned"}
    /\ currentTurn + 1 > MaxTurns(route)
    /\ context' = context \o ToolOutputs
    /\ parallelCall' = NoParallel
    /\ currentTurn' = currentTurn + 1
    /\ runState' = "Aborted"
    /\ runError' = MaxTurnsExceeded
    /\ UNCHANGED <<env, handlerVars, modelCalls, toolCall, exec, toolResult, finalOutput,
                   rawResponses, writeVars, uiVars>>

-----------------------------------------------------------------------------
(* The handlers after the run *)

\* Number(usage[key] || 0), part_003 lines 358-359: a counter the response
\* does not report counts as 0
TokensOf(usage, key) == IF HasKey(usage, key) THEN ValueAt(usage, key) ELSE 0

\* the sum the loop of part_003 lines 356-361 accumulates for one counter:
\* responses without usage are skipped (line 357)
SumOfTokens(responses, key) ==
    LET sum[i \in 0..Len(responses)] ==
            IF i = 0 THEN 0
            ELSE sum[i - 1] + (IF responses[i].usage = None THEN 0
                               ELSE TokensOf(responses[i].usage[1], key))
    IN  sum[Len(responses)]

\* a usage that reports the counters of the last response only
LastUsage(responses) ==
    LET last == IF responses = <<>> THEN <<>> ELSE <<responses[Len(responses)]>>
    IN  [promptTokens |-> SumOfTokens(last, "inputTokens"),
         completionTokens |-> SumOfTokens(last, "outputTokens"),
         cachedTokens |-> 0]

\* the usage of the response, part_003 lines 354-370
AggregateUsage(responses) ==
    [promptTokens |-> SumOfTokens(responses, "inputTokens"),
     completionTokens |-> SumOfTokens(responses, "outputTokens"),
     cachedTokens |-> 0]

\* (result?.finalOutput as any) || "", part_003 line 352
ReplyOf(output) == IF output.kind = "string" THEN output.s ELSE ""

\* a fallback that would answer 200 whatever it found
PushResponseAlwaysOk(output) ==
    IF output.kind = "object" /\ output.finalMessage # ""
    THEN MessageResponse(200, output.finalMessage)
    ELSE LET fallback == IF output.kind = "string" THEN output.s ELSE ""
         IN  IF fallback # "" THEN MessageResponse(200, fallback)
             ELSE MessageResponse(200, "No message produced.")

\* part_004 lines 178-192
PushResponseOf(output) ==
    IF output.kind = "object" /\ output.finalMessage # ""
    THEN MessageResponse(200, output.finalMessage)
    ELSE LET fallback == IF output.kind = "string" THEN output.s ELSE ""
         IN  IF fallback # "" THEN MessageResponse(200, fallback)
             ELSE MessageResponse(500, "No message produced.")

\* run() returned: part_003 lines 351-371, part_004 lines 177-192, part_002
\* lines 127-238
Reply ==
    /\ pc = "running" /\ runState = "Completed"
    /\ response' = IF route = "chat"
                   THEN ReplyResponse(ReplyOf(finalOutput), AggregateUsage(rawResponses))
                   ELSE IF route = "earlier"
                   THEN EarlierResponse(finalOutput, rawResponses)
                   ELSE PushResponseOf(finalOutput)
    /\ pc' = "responded"
    /\ UNCHANGED <<env, route, body, userId, toolDefinitions, toolsInstance,
                   runVars, writeVars, uiVars>>

\* a handler whose catch would let the run's error escape
CatchRethrows ==
    /\ pc = "running" /\ runState \in {"Failed", "Aborted"}
    /\ pc' = "threw"
    /\ UNCHANGED <<env, route, body, userId, toolDefinitions, toolsInstance, response,
                   runVars, writeVars, uiVars>>

\* run() threw: the catch of part_003 lines 372-384, part_004 lines 193-202
CatchError ==
    /\ pc = "running" /\ runState \in {"Failed", "Aborted"}
    /\ response' = ErrorResponse(500, runError)
    /\ pc' = "responded"
    /\ UNCHANGED <<env, route, body, userId, toolDefinitions, toolsInstance,
                   runVars, writeVars, uiVars>>

\* the earlier chat handler up to the run: part_002 lines 112-125
ReceiveEarlier(messages) == ReceiveWithMessages("earlier", NonString, AbsentPayload, messages)

EarlierPrepare ==
    /\ route = "earlier" /\ pc = "parsed"
    /\ IF toAgentHistory(body.messages) = <<>>
       THEN /\ response' = ErrorResponse(400, NoMessagesProvided)
            /\ pc' = "responded"
            /\ UNCHANGED toolsInstance
       ELSE /\ toolsInstance' = GetTimeTools
            /\ pc' = "ready"
            /\ UNCHANGED response
    /\ UNCHANGED <<env, route, body, userId, toolDefinitions, runVars, writeVars, uiVars>>

ModuleLoadError == ErrorOf("Missing MEM0_API_KEY", None, None, None)

\* part_004 line 23: getEnv("MEM0_API_KEY") throws while the module loads, so
\* the framework answers the request and POST never runs
PushLoadFails ==
    /\ pc = "idle" /\ ~env.mem0Key
    /\ route' = "push"
    /\ response' = ErrorResponse(500, ModuleLoadError)
    /\ pc' = "responded"
    /\ UNCHANGED <<env, body, userId, toolDefinitions, toolsInstance,
                   runVars, writeVars, uiVars>>

-----------------------------------------------------------------------------
(* The memory list route, POST /api/push/memories: src/unnamed/part_004     *)
(* lines 228-286                                                             *)

\* body.limit as sent: absent, a number kept as twice its value, or a string
\* Number() turns into NaN
AbsentLimit == [t |-> "undefined"]
RawLimits ==
    { AbsentLimit, StringValue("many"), NumberValue(0), NumberValue(-2), NumberValue(1),
      NumberValue(5), NumberValue(20), NumberValue(50), NumberValue(52), NumberValue(200) }

\* lines 242-244: rawLimit, limit and cappedLimit
CappedLimit(rawLimit) ==
    LET twiceLimit == IF rawLimit.t = "number" /\ rawLimit.twice > 0
                      THEN rawLimit.twice ELSE 20
        floor == twiceLimit \div 2
        atLeastOne == IF floor > 1 THEN floor ELSE 1
    IN  IF atLeastOne < 25 THEN atLeastOne ELSE 25

\* memory items of the store
MemoryItems(n) == [i \in 1..n |-> MemoryString("memory " \o ToString(i))]

\* mem0.getAll({user_id, page: 1, page_size}): the store, holding MaxStored
\* memories of the user, answers with its first page in one of its envelopes
PageAnswers(pageSize) ==
    LET page == MemoryItems(IF pageSize < MaxStored THEN pageSize ELSE MaxStored)
    IN  { ArrayOf(page),
          SearchAnswer(<<Entry("count", NotAnArray), Entry("results", ArrayOf(page))>>),
          SearchAnswer(<<Entry("results", NotAnArray), Entry("memories", ArrayOf(page)),
                         Entry("data", ArrayOf(<<>>))>>),
          SearchAnswer(<<Entry("data", ArrayOf(page))>>),
          SearchAnswer(<<Entry("items", ArrayOf(page))>>),
          NullAnswer }

\* NextResponse.json({ok: true, total, memories}), lines 262-274
ListResponse(res) ==
    LET items == ItemsOf(res)
    IN  [kind |-> "memories", status |-> 200, ok |-> TRUE, total |-> Len(items),
         memories |-> [i \in 1..Len(items) |-> Summary(items[i])]]

\* the request arrives and its body is read, lines 230-234
ReceiveListMemories(rawUserId, rawLimit) ==
    /\ pc = "idle" /\ env.mem0Key
    /\ route' = "memories"
    /\ body' = [userId |-> rawUserId, limit |-> rawLimit]
    /\ userId' = UserIdOf(rawUserId)
    /\ pc' = "parsed"
    /\ UNCHANGED <<env, toolDefinitions, toolsInstance, response, runVars, writeVars, uiVars>>

\* lines 236-251: without userId the answer is 400, else getAll is called
ListMemoriesPrepare ==
    /\ route = "memories" /\ pc = "parsed"
    /\ IF userId = UndefinedUserId
       THEN /\ response' = ErrorResponse(400, MissingUserId)
            /\ pc' = "responded"
            /\ UNCHANGED exec
       ELSE /\ exec' = [NoExec EXCEPT !.tool = "getAll", !.invoked = TRUE, !.storeCalls = 1]
            /\ pc' = "listing"
            /\ UNCHANGED response
    /\ UNCHANGED <<env, route, body, userId, toolDefinitions, toolsInstance, runState,
                   currentTurn, modelCalls, toolCall, toolResult, context, finalOutput,
                   runError, rawResponses, parallelCall, writeVars, uiVars>>

\* getAll settles: lines 253-274, or the catch of lines 275-284
ListMemoriesAnswersFrom(answers) ==
    /\ route = "memories" /\ pc = "listing"
    /\ \/ \E answer \in answers :
             /\ response' = ListResponse(answer)
             /\ exec' = [exec EXCEPT !.res = Some(answer)]
       \/ \E reason \in StoreFailures :
             /\ response' = ErrorResponse(500, ErrorOf(reason, None, None, None))
             /\ exec' = [exec EXCEPT !.storeFailed = TRUE]
    /\ pc' = "responded"
    /\ UNCHANGED <<env, route, body, userId, toolDefinitions, toolsInstance, runState,
                   currentTurn, modelCalls, toolCall, toolResult, context, finalOutput,
                   runError, rawResponses, parallelCall, writeVars, uiVars>>

ListMemoriesAnswers ==
    route = "memories" /\ ListMemoriesAnswersFrom(PageAnswers(CappedLimit(body.limit)))

-----------------------------------------------------------------------------
(* The detached memory writes: src/unnamed/part_003 lines 50-60 *)

\* Promise.resolve().then(write): a microtask runs as soon as the executor has
\* returned, before the awaiting run is resumed
MicrotaskMayRun ==
    \/ pc \in {"idle", "responded"}
    \/ pc = "running" /\ runState \in {"Requesting", "AwaitingStore", "ToolReturned"}

\* setImmediate(write), line 59: the callback runs in a later phase of the
\* event loop, once the promise jobs of the current one are done, that is
\* while the process waits for the model, the store or the next request
ImmediateMayRun ==
    \/ pc \in {"idle", "responded"}
    \/ pc = "running" /\ runState \in {"Requesting", "AwaitingStore"}
    \/ pc = "running" /\ runState = "ToolReturned" /\ parallelCall.state = "awaiting"

\* write() starts: mem0.add is called, lines 52-54
WriteStart ==
    /\ ImmediateMayRun
    /\ immediates # <<>>
    /\ inflight' = inflight \cup {Head(immediates)}
    /\ immediates' = Tail(immediates)
    /\ UNCHANGED <<env, handlerVars, runVars, nextWriteId, store, errorLog, uiVars>>

\* mem0.add resolves
WriteApplied ==
    /\ env.mem0Key
    /\ \E w \in inflight :
          /\ inflight' = inflight \ {w}
          /\ store' = store \cup {[userId |-> w.userId, text |-> w.text]}
    /\ UNCHANGED <<env, handlerVars, runVars, nextWriteId, immediates, errorLog, uiVars>>

\* a failed write that would surface in the response
WriteFailsLoudly ==
    /\ \E w \in inflight :
          /\ inflight' = inflight \ {w}
          /\ errorLog' = Append(errorLog, "Async memory write failed:")
    /\ response' = ErrorResponse(500, UpstreamError)
    /\ UNCHANGED <<env, route, pc, body, userId, toolDefinitions, toolsInstance,
                   runVars, nextWriteId, immediates, store, uiVars>>

\* mem0.add rejects: the catch of lines 55-57 logs it
WriteFails ==
    /\ \E w \in inflight :
          /\ inflight' = inflight \ {w}
          /\ errorLog' = Append(errorLog, "Async memory write failed:")
    /\ UNCHANGED <<env, handlerVars, runVars, nextWriteId, immediates, store, uiVars>>

-----------------------------------------------------------------------------
(* Specification of the handlers, the run and the writes *)

\* body.toolDefinitions of the requests whose run is followed
RunPayloads ==
    { AbsentPayload, NonArrayPayload,
      ArrayPayload(<<WithName(SearchMemoriesDefinition, "toString")>>),
      ArrayPayload(<<WithName(AddMemoryDefinition, "bogus")>>) }

ReceiveChat == pc = "idle" /\ \E u \in RawUserIds, p \in RunPayloads : Receive("chat", u, p)

ReceivePush == env.mem0Key /\ \E u \in RawUserIds : Receive("push", u, AbsentPayload)

Next ==
    \/ ReceiveChat
    \/ ReceivePush
    \/ PushLoadFails
    \/ ChatNormalize
    \/ ChatBuildTools
    \/ ChatCheckKey
    \/ PushPrepare
    \/ StartRun
    \/ ModelReturnsFinal
    \/ ModelCallFails
    \/ ModelCallsTool
    \/ DispatchTool
    \/ StoreAnswers
    \/ NextTurn
    \/ ExceedMaxTurns
    \/ Reply
    \/ CatchError
    \/ WriteStart
    \/ WriteApplied
    \/ WriteFails

Spec == Init /\ [][Next]_vars

\* the handler and run steps the runtime takes on its own once a request is in
ServeNext ==
    \/ ChatNormalize
    \/ ChatBuildTools
    \/ ChatCheckKey
    \/ PushPrepare
    \/ StartRun
    \/ ModelReturnsFinal
    \/ ModelCallFails
    \/ ModelCallsTool
    \/ DispatchTool
    \/ StoreAnswers
    \/ NextTurn
    \/ ExceedMaxTurns
    \/ Reply
    \/ CatchError

\* Spec with the scheduling Node gives: a continuation that is ready runs, and
\* a call to the model or the store settles (with a response or an error)
FairSpec == Spec /\ WF_vars(ServeNext)

-----------------------------------------------------------------------------
(* Specification of the request gates, over every payload *)

ReceiveAnyChat == pc = "idle" /\ \E u \in RawUserIds, p \in RawPayloads : Receive("chat", u, p)

NextTools ==
    \/ ReceiveAnyChat
    \/ ChatNormalize
    \/ ChatBuildTools
    \/ ChatCheckKey
    \/ StartRun

SpecTools == Init /\ [][NextTools]_vars

-----------------------------------------------------------------------------
(* The settings panel's actions: src/app/ui/page.tsx *)

\* updateToolDefinition(index, updater), lines 688-699
UpdateToolDefinition(index, updated) ==
    LET next == [uiDefs EXCEPT ![index] = updated]
    IN  /\ uiDefs' = next
        /\ uiError' = validateToolDefinitionsForUI(next)
        /\ UNCHANGED <<env, handlerVars, runVars, writeVars, composerVars, gateVars>>

UpdateName ==
    \E index \in 1..Len(uiDefs), value \in NameEdits :
       UpdateToolDefinition(index, WithNameUpdater(uiDefs[index], value))

UpdateDescription ==
    \E index \in 1..Len(uiDefs), value \in DescriptionEdits :
       UpdateToolDefinition(index, WithDescriptionUpdater(uiDefs[index], value))

UpdateParameterDescription ==
    \E index \in 1..Len(uiDefs), value \in ParameterDescriptionEdits :
       \E propKey \in Range(Keys(uiDefs[index].parameters.properties)) :
          UpdateToolDefinition(index,
              WithParameterDescriptionUpdater(uiDefs[index], propKey, value))

\* resetToolDefinitions, lines 700-704
ResetToolDefinitions ==
    LET defaults == cloneToolDefinitions(DEFAULT_TOOL_DEFINITIONS)
    IN  /\ uiDefs' = defaults
        /\ uiError' = validateToolDefinitionsForUI(defaults)
        /\ UNCHANGED <<env, handlerVars, runVars, writeVars, composerVars, gateVars>>

\* onSubmit with incomplete tool definitions, lines 731-738: nothing is sent
SubmitBlocked ==
    /\ validateToolDefinitionsForUI(uiDefs) # None
    /\ uiError' = validateToolDefinitionsForUI(uiDefs)
    /\ UNCHANGED <<env, handlerVars, runVars, writeVars, uiDefs, composerVars, gateVars>>

\* onSubmit, lines 740-773: the request carries the panel's tool definitions
\* and userId || undefined
Submit ==
    /\ validateToolDefinitionsForUI(uiDefs) = None
    /\ \E u \in {NonString, "u1"} : Receive("chat", u, ArrayPayload(uiDefs))

\* the request is over: the handler's locals and the run are gone
FinishRequest ==
    /\ pc = "responded"
    /\ pc' = "idle"
    /\ body' = [userId |-> NonString, toolDefinitions |-> AbsentPayload,
                messages |-> NonArrayMessages]
    /\ userId' = UndefinedUserId
    /\ toolDefinitions' = <<>>
    /\ toolsInstance' = <<>>
    /\ response' = NoResponse
    /\ runState' = "Idle"
    /\ currentTurn' = 0
    /\ modelCalls' = 0
    /\ context' = <<>>
    /\ finalOutput' = NoOutput
    /\ runError' = NoError
    /\ rawResponses' = <<>>
    /\ parallelCall' = NoParallel
    /\ UNCHANGED <<env, route, toolCall, exec, toolResult, writeVars, uiVars>>

\* requests of other clients: one definition each
SinglePayloads == {ArrayPayload(<<item>>) : item \in RawItems}

ReceiveSingle == pc = "idle" /\ \E p \in SinglePayloads : Receive("chat", "u1", p)

\* Edits interleave with whole requests: a request carries the definitions as
\* they were at its submit, so an edit made while it is served does not reach it.
NextUI ==
    \/ pc = "idle" /\ UpdateName
    \/ pc = "idle" /\ UpdateDescription
    \/ pc = "idle" /\ UpdateParameterDescription
    \/ pc = "idle" /\ ResetToolDefinitions
    \/ pc = "idle" /\ SubmitBlocked
    \/ Submit
    \/ ReceiveSingle
    \/ ChatNormalize
    \/ ChatBuildTools
    \/ ChatCheckKey
    \/ StartRun
    \/ ModelReturnsFinal
    \/ ModelCallFails
    \/ Reply
    \/ CatchError
    \/ FinishRequest

SpecUI == Init /\ [][NextUI]_vars

-----------------------------------------------------------------------------
(* The chat page's composer: ChatPOC.onSubmit, src/app/ui/page.tsx lines    *)
(* 728-841                                                                   *)

\* what the user may have typed
Drafts == {"", "  ", "hi", " hi "}

\* String.prototype.trim on the drafts
Trim(d) == IF d = "  " THEN "" ELSE IF d = " hi " THEN "hi" ELSE d

MessageItem(role, text, failed) == [role |-> role, text |-> text, failed |-> failed]

\* how a fetch of /api/chat ends: a 200 with a reply or with none, a non-OK
\* response with or without an error object, a rejected fetch, a body that is
\* not JSON
FetchOutcomes == {"reply", "empty reply", "error object", "no error object",
                  "fetch rejects", "json rejects"}

\* the assistant message of lines 800-836
AssistantMessage(outcome) ==
    CASE outcome = "reply" -> MessageItem("assistant", "${data.reply}", FALSE)
      [] outcome = "empty reply" -> MessageItem("assistant", "(empty response)", FALSE)
      [] outcome = "error object" ->
           MessageItem("assistant", "Error: ${base + meta}", TRUE)
      [] outcome = "no error object" ->
           MessageItem("assistant", "Error: Request failed (${res.status})", TRUE)
      [] OTHER -> MessageItem("assistant", "Error: ${msg}", TRUE)

\* onChange of the composer: setDraft
SetDraft ==
    /\ \E d \in Drafts : draft' = d
    /\ UNCHANGED <<env, handlerVars, runVars, writeVars, uiDefs, uiError,
                   sendingRef, pageMessages, fetches, gateVars>>

\* an onSubmit that would not look at sendingRef
onSubmitWhileSending ==
    /\ Trim(draft) # "" /\ validateToolDefinitionsForUI(uiDefs) = None
    /\ Len(SelectSeq(pageMessages, LAMBDA m : m.role = "user")) < MaxSubmits
    /\ draft' = ""
    /\ pageMessages' = Append(pageMessages, MessageItem("user", Trim(draft), FALSE))
    /\ sendingRef' = TRUE
    /\ fetches' = fetches + 1
    /\ UNCHANGED <<env, handlerVars, runVars, writeVars, uiDefs, uiError, gateVars>>

\* onSubmit up to its await of fetch, lines 728-773
onSubmit ==
    IF Trim(draft) = "" \/ sendingRef
    THEN UNCHANGED vars
    ELSE IF validateToolDefinitionsForUI(uiDefs) # None
    THEN /\ uiError' = validateToolDefinitionsForUI(uiDefs)
         /\ UNCHANGED <<env, handlerVars, runVars, writeVars, uiDefs, composerVars, gateVars>>
    ELSE /\ Len(SelectSeq(pageMessages, LAMBDA m : m.role = "user")) < MaxSubmits
         /\ draft' = ""
         /\ pageMessages' = Append(pageMessages, MessageItem("user", Trim(draft), FALSE))
         /\ sendingRef' = TRUE
         /\ fetches' = fetches + 1
         /\ UNCHANGED <<env, handlerVars, runVars, writeVars, uiDefs, uiError, gateVars>>

\* onSubmit from the settling of fetch on, lines 774-840: the reply or the
\* error message, and the finally block
FetchSettles ==
    /\ fetches > 0
    /\ \E outcome \in FetchOutcomes :
          pageMessages' = Append(pageMessages, AssistantMessage(outcome))
    /\ sendingRef' = FALSE
    /\ fetches' = fetches - 1
    /\ UNCHANGED <<env, handlerVars, runVars, writeVars, uiDefs, uiError, draft, gateVars>>

NextPage ==
    \/ SetDraft
    \/ UpdateDescription
    \/ ResetToolDefinitions
    \/ onSubmit
    \/ FetchSettles

SpecPage == Init /\ [][NextPage]_vars

-----------------------------------------------------------------------------
(* The site password gate: useSitePasswordGate, src/hooks/use-site-password.ts *)

\* window.prompt(...) ?? null: what the visitor enters, or null when the
\* prompt is cancelled
Cancelled == "<null>"
PromptInputs == {Cancelled, "", "wrong", "secret"}

\* the page is opened: the build's site password, the browser's storage, and
\* useState(() => !sitePassword), line 9
OpenPage ==
    /\ effect = "mounted" /\ prompts = <<>> /\ sitePassword = "" /\ localStorage = NoItem
    /\ \E configured \in {"", "secret"},
          stored \in {NoItem, "secret", "wrong", StorageThrows} :
          /\ sitePassword' = configured
          /\ localStorage' = stored
          /\ authorized' = (configured = "")
    /\ effect' = "rendered"
    /\ UNCHANGED <<env, handlerVars, runVars, writeVars, uiDefs, uiError, composerVars,
                   cancelled, prompts>>

\* markAuthorized(value), lines 19-21
markAuthorized(value) == authorized' = IF cancelled THEN authorized ELSE value

\* an ask that would not look at the cancelled flag
askAfterCleanup(input) ==
    /\ prompts' = Append(prompts, input)
    /\ IF input = Cancelled
       THEN /\ authorized' = FALSE
            /\ effect' = "stopped"
            /\ UNCHANGED localStorage
       ELSE IF input = sitePassword
       THEN /\ localStorage' = IF localStorage = StorageThrows THEN localStorage ELSE input
            /\ authorized' = TRUE
            /\ effect' = "stopped"
       ELSE /\ effect' = "scheduled"
            /\ UNCHANGED <<authorized, localStorage>>

\* ask(), lines 23-40, with the input the prompt returns
ask(input) ==
    IF cancelled
    THEN /\ effect' = "stopped"
         /\ UNCHANGED <<authorized, localStorage, prompts>>
    ELSE /\ prompts' = Append(prompts, input)
         /\ IF input = Cancelled
            THEN /\ markAuthorized(FALSE)
                 /\ effect' = "stopped"
                 /\ UNCHANGED localStorage
            ELSE IF input = sitePassword
            THEN \* localStorage.setItem inside try {} catch {}
                 /\ localStorage' = IF localStorage = StorageThrows THEN localStorage
                                     ELSE input
                 /\ markAuthorized(TRUE)
                 /\ effect' = "stopped"
            ELSE \* alert("Incorrect password"); setTimeout(ask, 0)
                 /\ effect' = "scheduled"
                 /\ UNCHANGED <<authorized, localStorage>>

\* the effect runs after the first render, lines 11-59
RunEffect ==
    /\ effect = "rendered"
    /\ IF sitePassword = ""
       THEN /\ authorized' = TRUE
            /\ effect' = "done"
            /\ UNCHANGED <<localStorage, prompts>>
       ELSE IF localStorage = sitePassword
       THEN /\ markAuthorized(TRUE)
            /\ effect' = "stopped"
            /\ UNCHANGED <<localStorage, prompts>>
       ELSE \* markAuthorized(false); ask(): the first prompt is shown at once
            \E input \in PromptInputs : ask(input)
    /\ UNCHANGED <<env, handlerVars, runVars, writeVars, uiDefs, uiError, composerVars,
                   sitePassword, cancelled>>

\* the timer of setTimeout(ask, 0) fires
AskAgain ==
    /\ effect = "scheduled"
    /\ cancelled \/ Len(prompts) < MaxPrompts
    /\ \E input \in PromptInputs : ask(input)
    /\ UNCHANGED <<env, handlerVars, runVars, writeVars, uiDefs, uiError, composerVars,
                   sitePassword, cancelled>>

\* the cleanup the effect returned, lines 46-48 and 56-58: the component
\* unmounts
Cleanup ==
    /\ effect \in {"scheduled", "stopped"}
    /\ ~cancelled
    /\ cancelled' = TRUE
    /\ UNCHANGED <<env, handlerVars, runVars, writeVars, uiDefs, uiError, composerVars,
                   sitePassword, localStorage, authorized, effect, prompts>>

\* the chat behind the gate: the composer is there once authorized is true
TypeBehindGate == authorized /\ effect # "mounted" /\ SetDraft

NextGate ==
    \/ OpenPage
    \/ RunEffect
    \/ AskAgain
    \/ Cleanup
    \/ TypeBehindGate

SpecGate == Init /\ [][NextGate]_vars

-----------------------------------------------------------------------------
(* Specification of chat requests over every message list *)

ReceiveMessages ==
    pc = "idle" /\ \E messages \in MessageLists :
                      ReceiveWithMessages("chat", "u1", AbsentPayload, messages)

NextMessages ==
    \/ ReceiveMessages
    \/ ChatNormalize
    \/ ChatBuildTools
    \/ ChatCheckKey
    \/ StartRun
    \/ ModelReturnsFinal
    \/ ModelCallFails
    \/ ModelCallsTool
    \/ DispatchTool
    \/ StoreAnswers
    \/ NextTurn
    \/ ExceedMaxTurns
    \/ Reply
    \/ CatchError
    \/ WriteStart
    \/ WriteApplied
    \/ WriteFails

SpecMessages == Init /\ [][NextMessages]_vars

-----------------------------------------------------------------------------
(* Specification of chat runs over every usage the model responses report *)

ReceiveUsage == pc = "idle" /\ Receive("chat", "u1", AbsentPayload)

ModelRespondsFinal == ModelReturnsFinalWith(RawResponses)

\* runs of at most MaxResponses model responses
ModelRespondsToolCall ==
    /\ Len(rawResponses) + 1 < MaxResponses
    /\ ModelCallsToolFrom({<<Entry("query", StringValue("CTV")),
                             Entry("limit", NumberValue(2))>>}, RawResponses)

NextUsage ==
    \/ ReceiveUsage
    \/ ChatNormalize
    \/ ChatBuildTools
    \/ ChatCheckKey
    \/ StartRun
    \/ ModelRespondsFinal
    \/ ModelCallFails
    \/ ModelRespondsToolCall
    \/ DispatchTool
    \/ StoreAnswers
    \/ NextTurn
    \/ Reply
    \/ CatchError

SpecUsage == Init /\ [][NextUsage]_vars

-----------------------------------------------------------------------------
(* Specification of the memory searches: the search tools of both agents    *)
(* over every answer of the store, and the memory list route                 *)

\* search_memories declared with query only
QueryOnlyDefinition ==
    WithRequired(WithProperties(SearchMemoriesDefinition, <<Entry("query", QueryProperty)>>),
                 <<"query">>)

ReceiveSearch ==
    /\ pc = "idle"
    /\ \/ \E p \in {AbsentPayload, ArrayPayload(<<QueryOnlyDefinition>>)} :
             Receive("chat", "u1", p)
       \/ env.mem0Key /\ Receive("push", "u1", AbsentPayload)

ReceiveList ==
    pc = "idle" /\ \E u \in {NonString, "u1"}, l \in RawLimits : ReceiveListMemories(u, l)

\* arguments of a search the model may send
SearchArgs ==
    { <<Entry("query", StringValue("CTV"))>> }
    \cup { <<Entry("query", StringValue("CTV")), Entry("limit", NumberValue(twice))>> :
              twice \in {0, 2, 3, 20, 50, 52} }

\* the store's answers to a search: every envelope, and long lists
StoreSearchResults ==
    AllSearchAnswers \cup {ArrayOf(MemoryItems(n)) : n \in {11, MaxStored}}

\* one search per run
ModelSearches ==
    /\ modelCalls = 1
    /\ \E i \in 1..Len(toolsInstance) :
          /\ toolsInstance[i].name = "search_memories"
          /\ ModelCallsToolFrom(SearchArgs, TypicalRawResponses)
          /\ toolCall'.index = i

StoreAnswersSearch == StoreAnswersFrom(StoreSearchResults)

NextSearch ==
    \/ ReceiveSearch
    \/ ReceiveList
    \/ ChatNormalize
    \/ ChatBuildTools
    \/ ChatCheckKey
    \/ PushPrepare
    \/ ListMemoriesPrepare
    \/ ListMemoriesAnswers
    \/ StartRun
    \/ ModelReturnsFinal
    \/ ModelCallFails
    \/ ModelSearches
    \/ DispatchTool
    \/ StoreAnswersSearch
    \/ NextTurn
    \/ Reply
    \/ CatchError

SpecSearch == Init /\ [][NextSearch]_vars

-----------------------------------------------------------------------------
(* Specification of the memory items: the two search tools and the memory   *)
(* list route over every shape of item the store may answer with             *)

ItemChoices ==
    { MemoryString("raw text"),
      NullItem,
      MemoryOf(<<Entry("id", StringValue("m1")), Entry("memory", StringValue("likes CTV"))>>),
      MemoryOf(<<Entry("data.memory", StringValue("from data")),
                 Entry("text", StringValue("from text"))>>),
      MemoryOf(<<Entry("memory", NullValue), Entry("content", StringValue("from content")),
                 Entry("text", StringValue("from text"))>>),
      MemoryOf(<<Entry("memory", StringValue("")), Entry("text", StringValue("from text"))>>),
      MemoryOf(<<Entry("id", StringValue("m2"))>>),
      MemoryOf(<<Entry("id", StringValue("m3")), Entry("memory", NumberValue(84))>>),
      MemoryOf(<<Entry("content", ObjectValue)>>) }

\* arrays of one or two items
ItemAnswers ==
    {ArrayOf(<<m>>) : m \in ItemChoices}
    \cup {ArrayOf(<<m, n>>) : m \in ItemChoices, n \in ItemChoices}

ReceiveForItems ==
    /\ pc = "idle"
    /\ \/ Receive("chat", "u1", AbsentPayload)
       \/ env.mem0Key /\ Receive("push", "u1", AbsentPayload)
       \/ ReceiveListMemories("u1", AbsentLimit)

\* one search per run, cut to one item or to three
ModelSearchesItems ==
    /\ modelCalls = 1
    /\ \E i \in 1..Len(toolsInstance) :
          /\ toolsInstance[i].name = "search_memories"
          /\ ModelCallsToolFrom({<<Entry("query", StringValue("CTV")),
                                   Entry("limit", NumberValue(twice))>> : twice \in {2, 6}},
                                TypicalRawResponses)
          /\ toolCall'.index = i

StoreAnswersItems == StoreAnswersFrom(ItemAnswers)

ListAnswersItems == ListMemoriesAnswersFrom(ItemAnswers)

NextItems ==
    \/ ReceiveForItems
    \/ ChatNormalize
    \/ ChatBuildTools
    \/ ChatCheckKey
    \/ PushPrepare
    \/ ListMemoriesPrepare
    \/ ListAnswersItems
    \/ StartRun
    \/ ModelReturnsFinal
    \/ ModelSearchesItems
    \/ DispatchTool
    \/ StoreAnswersItems
    \/ NextTurn
    \/ Reply

SpecItems == Init /\ [][NextItems]_vars

-----------------------------------------------------------------------------
(* Specification of the per-property validators: a tool with one declared   *)
(* property, called with every kind of value                                 *)

\* declared properties of each type, with and without constraints
PropertyChoices ==
    { PropertyOf("string", "d", <<"a", "bb">>, Some(2), Some(3), None, None),
      PropertyOf("string", "d", None, Some(2), Some(3), None, None),
      PropertyOf("string", "d", None, Some(1), None, None, None),
      PropertyOf("string", "d", None, None, Some(1), None, None),
      PropertyOf("string", "d", None, None, None, Some(1), Some(1)),
      PropertyOf("integer", "d", None, None, None, Some(1), Some(3)),
      PropertyOf("integer", "d", None, Some(2), None, None, None),
      PropertyOf("number", "d", None, None, None, Some(1), Some(3)),
      PropertyOf("number", "d", None, None, None, None, Some(0)),
      PropertyOf("boolean", "d", None, None, None, Some(1), None) }

\* values the model may send for the property
ValueChoices ==
    {StringValue(t) : t \in {"", "a", "bb", "ccc", "dddd", "true", "1"}}
    \cup {NumberValue(twice) : twice \in {-2, -1, 0, 1, 2, 3, 6, 7, 8}}
    \cup {BooleanValue(b) : b \in BOOLEAN}
    \cup {NullValue}

\* search_memories declared with the one property
DefinitionWith(prop) ==
    WithRequired(WithProperties(SearchMemoriesDefinition, <<Entry("query", prop)>>),
                 <<"query">>)

ReceiveDeclared ==
    /\ pc = "idle"
    /\ \E prop \in PropertyChoices :
          Receive("chat", "u1", ArrayPayload(<<DefinitionWith(prop)>>))

\* one tool call per run
ModelSendsValue ==
    /\ modelCalls = 1
    /\ ModelCallsToolFrom({<<Entry("query", v)>> : v \in ValueChoices}, TypicalRawResponses)

NextValidate ==
    \/ ReceiveDeclared
    \/ ChatNormalize
    \/ ChatBuildTools
    \/ ChatCheckKey
    \/ StartRun
    \/ ModelReturnsFinal
    \/ ModelSendsValue
    \/ DispatchTool
    \/ StoreAnswers
    \/ NextTurn
    \/ Reply

SpecValidate == Init /\ [][NextValidate]_vars

-----------------------------------------------------------------------------
(* Specification of successive runs of one user: each run calls one tool,   *)
(* and the writes of a run outlive it                                        *)

ReceiveSameUser == pc = "idle" /\ Receive("chat", "u1", AbsentPayload)

\* one tool call per run: a memory to add, or a search
ModelCallsOnce ==
    /\ modelCalls = 1
    /\ ModelCallsToolFrom({ <<Entry("text", StringValue("likes CTV"))>>,
                            <<Entry("query", StringValue("CTV")),
                              Entry("limit", NumberValue(2))>> },
                          TypicalRawResponses)

NextRuns ==
    \/ ReceiveSameUser
    \/ ChatNormalize
    \/ ChatBuildTools
    \/ ChatCheckKey
    \/ StartRun
    \/ ModelReturnsFinal
    \/ ModelCallsOnce
    \/ DispatchTool
    \/ StoreAnswers
    \/ NextTurn
    \/ Reply
    \/ FinishRequest
    \/ WriteStart
    \/ WriteApplied
    \/ WriteFails

SpecRuns == Init /\ [][NextRuns]_vars

-----------------------------------------------------------------------------
(* Specification of the tool building: definitions whose schema or          *)
(* properties have supported, unsupported and missing types                  *)

SchemaItems ==
    { AddMemoryDefinition, SearchMemoriesDefinition,
      WithName(AddMemoryDefinition, "bogus"),
      WithParameters(SearchMemoriesDefinition, SchemaOf("array", <<>>, <<>>)),
      WithParameters(AddMemoryDefinition,
                     SchemaOf("undefined", <<Entry("text", TextProperty)>>, <<"text">>)),
      WithProperties(AddMemoryDefinition, <<Entry("text", ArrayTypedProperty)>>),
      WithProperties(SearchMemoriesDefinition,
                     <<Entry("query", QueryProperty), Entry("limit", UntypedProperty)>>),
      WithProperties(SearchMemoriesDefinition,
                     <<Entry("query", PropertyOf("object", "q", None, None, None, None, None)),
                       Entry("limit", LimitProperty)>>) }

ReceiveSchemas ==
    /\ pc = "idle"
    /\ \E p \in {ArrayPayload(d) : d \in SeqsUpTo(SchemaItems, MaxDefs)} :
          Receive("chat", "u1", p)

NextBuild ==
    \/ ReceiveSchemas
    \/ ChatNormalize
    \/ ChatBuildTools
    \/ ChatCheckKey
    \/ StartRun
    \/ ModelReturnsFinal
    \/ ModelCallFails
    \/ Reply
    \/ CatchError

SpecBuild == Init /\ [][NextBuild]_vars

-----------------------------------------------------------------------------
(* Specification of the nudge runs: every order of memory searches, web     *)
(* searches and final output the agent's settings allow                      *)

ReceiveNudge == env.mem0Key /\ Receive("push", "u1", AbsentPayload)

ModelNudgeFinal == ModelReturnsFinalWith(NudgeResponses)

\* runs of at most MaxResponses model responses
ModelNudgeSearches ==
    /\ Len(rawResponses) + 1 < MaxResponses
    /\ ModelCallsToolFrom({<<Entry("query", StringValue("CTV"))>>}, NudgeResponses)

NextNudge ==
    \/ ReceiveNudge
    \/ PushLoadFails
    \/ PushPrepare
    \/ StartRun
    \/ ModelNudgeFinal
    \/ ModelCallFails
    \/ ModelNudgeSearches
    \/ DispatchTool
    \/ StoreAnswers
    \/ NextTurn
    \/ Reply
    \/ CatchError

SpecNudge == Init /\ [][NextNudge]_vars

-----------------------------------------------------------------------------
(* Specification of chat runs whose model responses carry one or two tool   *)
(* calls                                                                     *)

ReceiveOne == pc = "idle" /\ \E u \in {NonString, "u1"} : Receive("chat", u, AbsentPayload)

\* runs of at most MaxResponses model responses
ModelCallsOneOrTwo ==
    /\ Len(rawResponses) + 1 < MaxResponses
    /\ ModelCallsTools({<<Entry("text", StringValue("likes CTV"))>>,
                        <<Entry("query", StringValue("CTV")), Entry("limit", NumberValue(2))>>},
                       {FollowedResponse(raw) : raw \in TypicalRawResponses},
                       {NoParallel, SecondSearch})

NextParallel ==
    \/ ReceiveOne
    \/ ChatNormalize
    \/ ChatBuildTools
    \/ ChatCheckKey
    \/ StartRun
    \/ ModelReturnsFinal
    \/ ModelCallFails
    \/ ModelCallsOneOrTwo
    \/ DispatchTool
    \/ DispatchParallel
    \/ StoreAnswers
    \/ ParallelStoreAnswers
    \/ NextTurn
    \/ Reply
    \/ CatchError
    \/ WriteStart
    \/ WriteApplied
    \/ WriteFails

SpecParallel == Init /\ [][NextParallel]_vars

-----------------------------------------------------------------------------
(* Specification of the earlier chat handler: runs with get_time over every *)
(* shape of usage                                                            *)

ReceiveEarlierChat ==
    pc = "idle" /\ \E messages \in EarlierMessageLists : ReceiveEarlier(messages)

ModelAnswersEarlier == ModelReturnsFinalWith(EarlierRawResponses)

\* runs of at most MaxResponses model responses
ModelCallsGetTime ==
    /\ Len(rawResponses) + 1 < MaxResponses
    /\ ModelCallsToolFrom({<<Entry("timezoneHint", StringValue("UTC"))>>, <<>>},
                          EarlierRawResponses)

NextEarlier ==
    \/ ReceiveEarlierChat
    \/ EarlierPrepare
    \/ StartRun
    \/ ModelAnswersEarlier
    \/ ModelCallFails
    \/ ModelCallsGetTime
    \/ DispatchTool
    \/ NextTurn
    \/ Reply
    \/ CatchError

SpecEarlier == Init /\ [][NextEarlier]_vars

-----------------------------------------------------------------------------
(* Properties of the run: turn ceiling and termination *)

AfterRun == runState \in {"Completed", "Failed", "Aborted"}

\* C3: the model requests of one run number at most the route's turn ceiling,
\* 8 for chat and 10 for the nudge route, and no model request is issued once
\* the ceiling is reached or the run is Completed or Aborted.
C3_ModelCallsBounded ==
    /\ [](/\ route = "chat" => modelCalls <= 8
          /\ route = "push" => modelCalls <= 10
          /\ modelCalls <= currentTurn)
    /\ [][(AfterRun \/ (route = "chat" /\ modelCalls = 8)
                    \/ (route = "push" /\ modelCalls = 10))
          => modelCalls' = modelCalls]_vars

\* a chat run stopped at the ceiling after its eighth model request, a nudge run
\* after its tenth
C3_Witness ==
    /\ runState = "Aborted"
    /\ route = "push"
    /\ modelCalls = 10
    /\ currentTurn = 11

\* C2 as stated: at the ceiling the caller gets the available text or the
\* no-output fallback
C2_CeilingGivesTextOrFallback ==
    (pc = "responded" /\ runState = "Aborted") =>
        \/ response.kind = "reply"
        \/ response.kind = "message"

C2_ResultDefined ==
    /\ pc \in {"idle", "parsed", "normalized", "built", "ready", "running", "responded"}
    /\ pc = "responded" => response # NoResponse
    /\ runState = "Aborted" =>
          /\ currentTurn = MaxTurns(route) + 1
          /\ runError = MaxTurnsExceeded
    /\ (pc = "responded" /\ runState = "Aborted") =>
          response = ErrorResponse(500, MaxTurnsExceeded)

\* C2: every run terminates: a run whose model asks for a tool on every turn is
\* stopped at the turn ceiling, and every request is answered; the handler never
\* throws, and at the ceiling its answer is the status-500 error envelope that
\* carries the max-turns error.
C2_RunTerminates ==
    /\ []C2_ResultDefined
    /\ (pc = "running") ~> (pc = "responded" /\ AfterRun)
    /\ (pc = "parsed") ~> (pc = "responded")

\* a run that was stopped at the ceiling has been answered
C2_Witness ==
    /\ pc = "responded"
    /\ runState = "Aborted"
    /\ route = "chat"
    /\ modelCalls = 8
    /\ response.kind = "error"

-----------------------------------------------------------------------------
(* Properties of the memory tools *)

ToolReturnedFrom(execute) ==
    /\ pc = "running"
    /\ runState = "ToolReturned"
    /\ exec.invoked
    /\ toolCall.execute = execute

WriteQueued(id) == \E i \in 1..Len(immediates) : immediates[i].id = id
WriteStarted(id) == \E w \in inflight : w.id = id

C5_WritesAreDetached ==
    /\ []((pc = "running" /\ runState = "Completed") => ENABLED Reply)
    /\ []((pc = "running" /\ runState = "ToolReturned") => ENABLED (NextTurn \/ ExceedMaxTurns))
    /\ []((pc = "running" /\ runState \in {"Failed", "Aborted"}) => ENABLED CatchError)
    /\ [][(inflight' # inflight \/ store' # store \/ errorLog' # errorLog)
          => UNCHANGED <<handlerVars, runVars>>]_vars
    /\ [][errorLog' # errorLog
          => /\ \E w \in inflight : inflight' = inflight \ {w}
             /\ errorLog' = Append(errorLog, "Async memory write failed:")
             /\ UNCHANGED store]_vars

\* a reply went out with status 200 although a write of its run had failed
C5_Witness ==
    /\ pc = "responded"
    /\ response.kind = "reply"
    /\ response.status = 200
    /\ Len(errorLog) > 0
    /\ inflight # {}

\* C6: with no userId in the run context a memory tool returns the instructive
\* string, without a call to the store and without a queued write.
C6_NoUserIdNoStore ==
    /\ (ToolReturnedFrom("add_memory") /\ userId = UndefinedUserId) =>
          /\ toolResult = NoUserIdText
          /\ exec.storeCalls = 0 /\ exec.queuedId = 0
          /\ ~exec.storeFailed /\ ~exec.clientFailed
    /\ (ToolReturnedFrom("search_memories") /\ userId = UndefinedUserId) =>
          /\ toolResult = NoUserIdText
          /\ exec.storeCalls = 0 /\ exec.queuedId = 0
          /\ ~exec.storeFailed /\ ~exec.clientFailed
    /\ (pc = "running" /\ userId = UndefinedUserId) =>
          /\ runState # "AwaitingStore"
          /\ immediates = <<>> /\ inflight = {} /\ store = {} /\ errorLog = <<>>

\* add_memory has answered a later turn of a run without userId
C6_Witness ==
    /\ ToolReturnedFrom("add_memory")
    /\ userId = UndefinedUserId
    /\ toolResult = NoUserIdText
    /\ currentTurn > 1

ExecutorFailed == exec.storeFailed \/ exec.clientFailed

\* C7 as stated: an error inside a memory tool executor comes back as the text
\* "Failed to search memories: <reason>"
C7_AlwaysFailedToSearch ==
    (pc = "running" /\ runState = "ToolReturned" /\ ExecutorFailed) =>
        \E reason \in StoreFailures \cup {ClientFailure} :
           toolResult = FailedToSearch(reason)

\* C7: an error inside a memory tool executor is caught and returned as the
\* tool's text, which carries the reason: "Failed to search memories: <reason>"
\* from the chat route's search_memories, "Failed to add memory: <reason>" from
\* add_memory, the JSON text {ok: false, error: <reason>} from the nudge route's
\* search_memories; the run is not failed by it and goes on with that output.
C7_FailureIsToolText ==
    /\ (pc = "running" /\ runState = "ToolReturned" /\ exec.storeFailed) =>
          /\ toolCall.execute = "search_memories" =>
                \E reason \in StoreFailures : toolResult = FailedToSearch(reason)
          /\ toolCall.execute = "push_search_memories" =>
                \E reason \in StoreFailures : toolResult = PushSearchFailed(reason)
          /\ toolCall.execute \in {"search_memories", "push_search_memories"}
    /\ (pc = "running" /\ runState = "ToolReturned" /\ exec.clientFailed) =>
          /\ toolCall.execute = "search_memories" => toolResult = FailedToSearch(ClientFailure)
          /\ toolCall.execute = "add_memory" => toolResult = FailedToAdd(ClientFailure)
          /\ toolCall.execute = "push_search_memories" =>
                toolResult = PushSearchFailed(ClientFailure)
    /\ (pc = "running" /\ runState = "ToolReturned" /\ ExecutorFailed) =>
          /\ runError = NoError
          /\ response = NoResponse
          /\ ENABLED (NextTurn \/ ExceedMaxTurns)

\* the chat route's search has failed at the store and the run holds its text
C7_Witness ==
    /\ ToolReturnedFrom("search_memories")
    /\ exec.storeFailed
    /\ toolResult = FailedToSearch("fetch failed")

-----------------------------------------------------------------------------
(* Properties of the tool definitions and their validators *)

\* C9 as stated: the validator built by buildToolParameters accepts an argument
\* object if and only if its keys are exactly the declared property keys and
\* its values pass the declared types; a missing or an additional property is
\* rejected.  exec.invoked tells that the arguments passed the validator.
C9_ExactKeysOnly ==
    (route = "chat" /\ pc = "running" /\ runState \in {"ToolReturned", "AwaitingStore"}
        /\ toolCall.name \in ExecutorKeys) =>
       LET properties == toolDefinitions[toolCall.index].parameters.properties
           declared == Range(Keys(properties))
           given == Range(Keys(toolCall.args))
           wellTyped ==
             \A i \in 1..Len(properties) :
                HasKey(toolCall.args, properties[i].key) =>
                   ZodAccepts(BuildZodForProperty(properties[i].value).value,
                              ValueAt(toolCall.args, properties[i].key))
       IN  exec.invoked <=> (given = declared /\ wellTyped)

UnknownNames == {i \in 1..Len(toolDefinitions) : toolDefinitions[i].name \notin ExecutorKeys}

\* C1 as stated: when a name of the tool-definition list is not a key of the
\* executor table, building the tools fails with the error that names the index
\* and the name, the request is answered with that error and no model call is
\* issued.
C1_UnknownNameRejected ==
    (route = "chat" /\ pc \in {"built", "ready", "running", "responded"}
        /\ body.toolDefinitions.kind = "array" /\ UnknownNames # {}) =>
       LET first == CHOOSE i \in UnknownNames : \A j \in UnknownNames : i <= j
       IN  /\ pc = "responded"
           /\ response =
                ErrorResponse(400,
                    ErrorOf("Unsupported tool name at index ${index}: ${definition.name}",
                            Some(first - 1), Some(toolDefinitions[first].name), None))
           /\ modelCalls = 0
           /\ runState = "Idle"

HasInvalidProperty(item) ==
    \E i \in 1..Len(item.parameters.properties) :
       item.parameters.properties[i].value.kind # "object"

FirstInvalidProperty(item) ==
    LET properties == item.parameters.properties
        invalid == {i \in 1..Len(properties) : properties[i].value.kind # "object"}
    IN  properties[CHOOSE i \in invalid : \A j \in invalid : i <= j].key

\* the malformed entries C10 lists
ItemMalformed(item) ==
    \/ item.kind # "object"
    \/ item.name = NonString \/ item.name \in BlankStrings
    \/ item.description = NonString \/ item.description \in BlankStrings
    \/ item.parameters.kind # "object"
    \/ item.parameters.type # "object"
    \/ HasInvalidProperty(item)
    \/ Len(item.parameters.properties) = 0

MalformedItems(payload) == {i \in 1..Len(payload.items) : ItemMalformed(payload.items[i])}

PayloadMalformed(payload) ==
    \/ payload.kind = "nonarray"
    \/ payload.kind = "array" /\ MalformedItems(payload) # {}

\* C10 as stated: the message of every such rejection names an index, a tool or
\* a parameter
C10_MessageAlwaysNames ==
    (route = "chat" /\ pc = "responded" /\ PayloadMalformed(body.toolDefinitions)) =>
       /\ response.kind = "error" /\ response.status = 400
       /\ \/ response.error.index # None
          \/ response.error.name # None
          \/ response.error.param # None

\* C10: malformed or incomplete tool definitions of a chat request are answered
\* with status 400 and no model call is issued.  For a malformed entry of the
\* array the message names the entry's index (not an object, no valid name) or
\* its tool name, and the parameter too for an invalid property entry; for
\* toolDefinitions that is not an array it is the fixed text "Tool definitions
\* must be an array.", which names none of them.
C10_MalformedRejected ==
    (route = "chat" /\ pc \notin {"idle", "parsed"}
        /\ PayloadMalformed(body.toolDefinitions)) =>
       /\ pc = "responded"
       /\ response.kind = "error" /\ response.status = 400
       /\ modelCalls = 0 /\ runState = "Idle"
       /\ body.toolDefinitions.kind = "nonarray" =>
             response.error = ErrorOf("Tool definitions must be an array.", None, None, None)
       /\ body.toolDefinitions.kind = "array" =>
             LET malformed == MalformedItems(body.toolDefinitions)
                 first == CHOOSE i \in malformed : \A j \in malformed : i <= j
                 item == body.toolDefinitions.items[first]
             IN  IF item.kind # "object" \/ item.name = NonString \/ item.name \in BlankStrings
                 THEN response.error.index = Some(first - 1)
                 ELSE /\ response.error.name = Some(item.name)
                      /\ (/\ item.description # NonString
                          /\ item.description \notin BlankStrings
                          /\ item.parameters.kind = "object"
                          /\ item.parameters.type = "object"
                          /\ HasInvalidProperty(item)) =>
                             response.error.param = Some(FirstInvalidProperty(item))

\* the second entry's invalid property has been rejected by name
C10_Witness ==
    /\ pc = "responded"
    /\ response.kind = "error" /\ response.status = 400
    /\ body.toolDefinitions.kind = "array"
    /\ Len(body.toolDefinitions.items) = 2
    /\ response.error.name = Some("search_memories")
    /\ response.error.param = Some("limit")
    /\ modelCalls = 0

RequiredIsAllKeys(def) ==
    /\ Range(def.parameters.required) = Range(Keys(def.parameters.properties))
    /\ Len(def.parameters.required) = Len(def.parameters.properties)

\* C8: the required list of a tool definition is exactly its property keys
\* after every mutation path: the definitions normalizeToolDefinitions returns,
\* and the settings panel's definitions after cloneToolDefinition, a reset and
\* any sequence of name, description and parameter description edits.
C8_RequiredIsAllKeys ==
    /\ \A i \in 1..Len(uiDefs) : RequiredIsAllKeys(uiDefs[i])
    /\ (route = "chat" /\ pc \in {"normalized", "built", "ready", "running", "responded"}
           /\ body.toolDefinitions.kind = "array") =>
          \A i \in 1..Len(toolDefinitions) : RequiredIsAllKeys(toolDefinitions[i])

\* the panel's definitions have been edited, and a request whose definition
\* left a property out of required has been normalized
C8_Witness ==
    /\ pc = "normalized"
    /\ body.toolDefinitions.kind = "array"
    /\ ~RequiredIsAllKeys(body.toolDefinitions.items[1])
    /\ Len(toolDefinitions) = 1
    /\ uiDefs[1].name = "bogus"
    /\ uiDefs[2].parameters.properties[2].value.description = "edited"

-----------------------------------------------------------------------------
(* Properties of the history and the context *)

\* C11 as stated: a chat request whose message list is empty, or is empty once
\* its malformed entries are filtered out, is rejected before any model call,
\* and no run is started for it.
C11_EmptyHistoryRejected ==
    (route = "chat" /\ pc # "idle" /\ ChatHistory(body.messages) = <<>>) =>
       /\ modelCalls = 0
       /\ runState = "Idle"
       /\ pc = "responded" => response.kind = "error"

GeneratedRoles == {"assistant", "tool_call", "tool_result"}

\* C19: during a run the supplied history is not changed and no input of the
\* user is appended: the context is the history made of the request's messages,
\* in their order, followed only by items the model and the tools produced,
\* and a step of the run leaves the request body alone and appends at most one
\* such item.
C19_HistoryKept ==
    /\ []((route = "chat" /\ runState # "Idle") =>
            LET history == ChatHistory(body.messages)
            IN  /\ Len(context) >= Len(history)
                /\ SubSeq(context, 1, Len(history)) = history
                /\ \A i \in (Len(history) + 1)..Len(context) :
                      context[i].role \in GeneratedRoles)
    /\ [][pc = "running" =>
            /\ body' = body
            /\ \/ context' = context
               \/ \E role \in GeneratedRoles : context' = Append(context, Item(role, "${generated}"))]_vars

\* a run over a history of four items has added a tool call, its result and
\* the model's answer
C19_Witness ==
    /\ route = "chat" /\ pc = "running" /\ runState = "Completed"
    /\ Len(ChatHistory(body.messages)) = 4
    /\ Len(context) = 7
    /\ context[1] = Item("user", "hi")
    /\ context[3] = Item("user", "be brief")
    /\ context[7].role = "assistant"

-----------------------------------------------------------------------------
(* Properties of the credentials *)

-----------------------------------------------------------------------------
(* Properties of the usage *)

Replied == pc = "responded" /\ route = "chat" /\ response.kind = "reply"

\* C13: the usage returned for a run is the field-wise sum of the usage of
\* every model response of that run, a counter a response lacks counting as 0,
\* and all its counters are present even when no response carries usage.
C13_UsageIsFieldwiseSum ==
    Replied =>
        response.usage = [promptTokens |-> SumOfTokens(rawResponses, "inputTokens"),
                          completionTokens |-> SumOfTokens(rawResponses, "outputTokens"),
                          cachedTokens |-> SumOfTokens(rawResponses, "cachedTokens")]

OrdersOf(n) == {p \in [1..n -> 1..n] : \A i, j \in 1..n : i # j => p[i] # p[j]}
Permuted(responses, p) == [i \in 1..Len(responses) |-> responses[p[i]]]
PlusUsage(u, v) ==
    [promptTokens |-> u.promptTokens + v.promptTokens,
     completionTokens |-> u.completionTokens + v.completionTokens,
     cachedTokens |-> u.cachedTokens + v.cachedTokens]

\* a usage the handler returned, handed back to it as the usage of a response
AsRawResponse(usage) ==
    RawResponse(Some(<<[key |-> "promptTokens", value |-> usage.promptTokens],
                       [key |-> "completionTokens", value |-> usage.completionTokens],
                       [key |-> "cachedTokens", value |-> usage.cachedTokens]>>))

-----------------------------------------------------------------------------
(* Properties of the memory searches *)

\* a search tool has returned the list it made of the store's answer
SearchListed ==
    /\ pc = "running" /\ runState = "ToolReturned"
    /\ toolCall.execute \in {"search_memories", "push_search_memories"}
    /\ exec.res # None
\* the memory list route has answered with the list it made of the store's answer
RouteListed == route = "memories" /\ pc = "responded" /\ exec.res # None

ListedCount == IF RouteListed THEN response.total ELSE toolResult.object.count
ListedMemories == IF RouteListed THEN response.memories ELSE toolResult.object.memories

\* the list was made of these items: it counts them all and names them in
\* their order, from the first one on
ListedFrom(items) ==
    /\ ListedCount = Len(items)
    /\ Len(ListedMemories) <= Len(items)
    /\ \A i \in 1..Len(ListedMemories) : ListedMemories[i] = Summary(items[i])
    /\ items # <<>> => ListedMemories # <<>>
    /\ RouteListed => Len(ListedMemories) = Len(items)

\* C15: the list a memory search returns is made of the store's answer when
\* that is an array, else of the array under results, else of the one under
\* memories, else of the one under data, and is empty for every other answer;
\* so for the two search tools and for the memory list route.
C15_ListFromEnvelope ==
    (SearchListed \/ RouteListed) =>
        LET raw == exec.res[1]
            Under(key) == ValueAt(raw.fields, key).items
        IN  /\ raw.kind = "array" => ListedFrom(raw.items)
            /\ IsArrayAt(raw, "results") => ListedFrom(Under("results"))
            /\ ~IsArrayAt(raw, "results") /\ IsArrayAt(raw, "memories")
                   => ListedFrom(Under("memories"))
            /\ ~IsArrayAt(raw, "results") /\ ~IsArrayAt(raw, "memories")
                   /\ IsArrayAt(raw, "data") => ListedFrom(Under("data"))
            /\ raw.kind # "array" /\ ~IsArrayAt(raw, "results")
                   /\ ~IsArrayAt(raw, "memories") /\ ~IsArrayAt(raw, "data")
                   => ListedFrom(<<>>)

\* the chat tool listed the array under memories of an answer whose results
\* is not an array and whose data is one too
C15_Witness ==
    /\ SearchListed /\ route = "chat"
    /\ exec.res = Some(SearchAnswer(
                      <<Entry("results", NotAnArray),
                        Entry("memories", ArrayOf(<<MemoryObject("memory", "memories")>>)),
                        Entry("data", ArrayOf(<<MemoryObject("memory", "data")>>))>>))
    /\ toolResult.object.memories = <<StringValue("memories")>>

\* the limit the caller of the search gave: body.limit of the list route, the
\* limit argument of the model's tool call
GivenLimit ==
    IF route = "memories" THEN body.limit
    ELSE IF HasKey(toolCall.args, "limit") THEN ValueAt(toolCall.args, "limit")
    ELSE AbsentLimit

\* C16: the memory list a search returns is cut to the limit: the limit is the
\* one the caller gave, 10 when the caller gave none or one that is not a
\* positive finite number, never above 25 and never below 1, and the list has
\* no more items than that.
C16_TruncatedToLimit ==
    (SearchListed \/ RouteListed) =>
        LET given == GivenLimit
            limit == IF given.t = "number" /\ given.twice > 0 THEN given.twice \div 2 ELSE 10
            effective == IF limit < 1 THEN 1 ELSE IF limit > 25 THEN 25 ELSE limit
        IN  Len(ListedMemories) = IF ListedCount < effective THEN ListedCount ELSE effective

-----------------------------------------------------------------------------
(* Properties of the nudge handler's answer *)

PushReplied == route = "push" /\ pc = "responded" /\ runState = "Completed"
HasFinalMessage == finalOutput.kind = "object" /\ finalOutput.finalMessage # ""
RawText == IF finalOutput.kind = "string" THEN finalOutput.s ELSE ""

\* C17: when the nudge run's final output has no finalMessage the handler
\* still answers: with the raw text of the output and status 200 when there
\* is such a text, else with "No message produced." and status 500; when
\* finalMessage is there the answer is that message, with status 200.
C17_FallbackAnswer ==
    /\ route = "push" /\ pc = "running" /\ runState = "Completed" => ENABLED Reply
    /\ route = "push" => pc # "threw"
    /\ PushReplied =>
          /\ response.kind = "message"
          /\ HasFinalMessage =>
                response.message = finalOutput.finalMessage /\ response.status = 200
          /\ ~HasFinalMessage /\ RawText # "" =>
                response.message = RawText /\ response.status = 200
          /\ ~HasFinalMessage /\ RawText = "" =>
                response.message = "No message produced." /\ response.status = 500

\* a run that ended with nothing to send was answered
C17_Witness ==
    /\ PushReplied
    /\ finalOutput = NoOutput
    /\ response = MessageResponse(500, "No message produced.")

-----------------------------------------------------------------------------
(* Properties of the nudge run's order *)

\* the output items of the run's model responses, in their order
RunOutput ==
    LET all[i \in 0..Len(rawResponses)] ==
            IF i = 0 THEN <<>>
            ELSE all[i - 1] \o (IF "output" \in DOMAIN rawResponses[i]
                                THEN rawResponses[i].output ELSE <<>>)
    IN  all[Len(rawResponses)]

IsCall(item) == item.type # "message"
IsMemorySearch(item) == item = FunctionCall("search_memories")

\* C18: a nudge run that produced its final output called search_memories
\* first, then the web search, and gave its one final output only after both.
C18_ThreePhaseOrder ==
    route = "push" /\ runState = "Completed" =>
        LET items == RunOutput
            calls == SelectSeq(items, IsCall)
        IN  /\ Len(calls) >= 2
            /\ IsMemorySearch(calls[1])
            /\ \E j \in 2..Len(calls) : calls[j] = WebSearchCall
            /\ Len(items) = Len(calls) + 1
            /\ items[Len(items)] = MessageOutput

-----------------------------------------------------------------------------
(* Properties of the order of model requests and tool executions *)

ModelRequestInFlight == pc = "running" /\ runState = "Requesting"
\* an executor has started and has not returned: it awaits the store
FirstToolRunning == pc = "running" /\ runState = "AwaitingStore"
SecondToolRunning == pc = "running" /\ parallelCall.state = "awaiting"

\* a step that issues the next model request of a run under way
IssuesNextRequest == pc = "running" /\ pc' = "running" /\ modelCalls' # modelCalls

\* the next model request is issued only when no request is in flight, every
\* tool of the last response has returned its text, and in that step the
\* texts enter the context
RequestFollowsResults ==
    IssuesNextRequest =>
        /\ modelCalls' = modelCalls + 1
        /\ ~ModelRequestInFlight
        /\ runState = "ToolReturned" /\ toolResult # NoResult
        /\ parallelCall.state \in {"none", "returned"}
        /\ parallelCall.state = "returned" => parallelCall.result # NoResult
        /\ \E n \in 1..2 :
              /\ n = (IF parallelCall.state = "none" THEN 1 ELSE 2)
              /\ Len(context') = Len(context) + n
              /\ SubSeq(context', 1, Len(context)) = context
              /\ \A i \in 1..n : context'[Len(context) + i] = Generated("tool_result")

\* C20 as stated: the next model request waits for the tool's result in the
\* context, and no two model calls or tool executions of a run are in flight
\* at once.
C20_OneAtATime ==
    /\ [](~(FirstToolRunning /\ SecondToolRunning))
    /\ [](ModelRequestInFlight => ~FirstToolRunning /\ ~SecondToolRunning)
    /\ [][RequestFollowsResults]_vars

\* C20: the model requests of a run are strictly sequential: the next one is
\* issued only after every tool the last response invoked has returned and
\* the results are in the context, and no tool runs while a model request is
\* in flight.  The tools of one response run together.
C20_RequestsAreSequential ==
    /\ [](ModelRequestInFlight => ~FirstToolRunning /\ ~SecondToolRunning)
    /\ [][RequestFollowsResults]_vars

\* the second request of a run was issued after both tools of the first
\* response had returned
C20_Witness ==
    /\ ModelRequestInFlight
    /\ modelCalls = 2
    /\ Len(rawResponses[1].output) = 2
    /\ Len(context) = 5
    /\ context[4] = Generated("tool_result") /\ context[5] = Generated("tool_result")

-----------------------------------------------------------------------------
(* Properties of the usage snapshots of the earlier chat handler *)

EarlierReplied == route = "earlier" /\ pc = "responded" /\ response.kind = "reply"

\* tool invocations of the run: every response but the last one invoked a tool
ToolCallsOfRun == Len(rawResponses) - 1

\* C21: the response has one usage snapshot per model response of the run and
\* none for the tool calls: as many snapshots as model responses, the i-th
\* made of the i-th response and indexed i - 1.
C21_OneSnapshotPerModelCall ==
    EarlierReplied =>
        /\ Len(response.usageSnapshots) = Len(rawResponses)
        /\ Len(response.usageSnapshots) = modelCalls
        /\ \A i \in 1..Len(rawResponses) :
              /\ response.usageSnapshots[i].index = i - 1
              /\ response.usageSnapshots[i] = SnapshotOf(i - 1, rawResponses[i])

\* a run with two tool calls, one of whose responses has no usage, was answered
C21_Witness ==
    /\ EarlierReplied
    /\ ToolCallsOfRun = 2
    /\ RawUsageOf(rawResponses[2]) = <<>>
    /\ Len(response.usageSnapshots) = 3

-----------------------------------------------------------------------------
(* Properties of pickUsage *)

\* a field of the usage object is present when it holds something other than
\* null and undefined
Present(usage, path) ==
    \E k \in 1..Len(usage) :
        usage[k].key = path /\ usage[k].value.t \notin {"null", "undefined"}

\* the value of the first present path of a list, read directly from the object
FirstPresent(usage, paths) ==
    IF \E i \in 1..Len(paths) : Present(usage, paths[i])
    THEN LET first == CHOOSE i \in 1..Len(paths) :
                         /\ Present(usage, paths[i])
                         /\ \A j \in 1..(i - 1) : ~Present(usage, paths[j])
         IN  Some(ValueAt(usage, paths[first]))
    ELSE None

CachedPaths ==
    <<"details.input_tokens_details.cached_tokens", "input_tokens_details.cached_tokens",
      "inputTokensDetails.cachedTokens", "inputTokensDetails[0].cached_tokens">>

\* a counter of a snapshot is the value of the first present variant, and
\* undefined (never the number 0) when no variant is present
ResolvedFrom(counter, usage, paths) ==
    IF FirstPresent(usage, paths) = None
    THEN counter = UndefinedValue /\ counter # NumberValue(0)
    ELSE counter = FirstPresent(usage, paths)[1]

\* C22: in every snapshot of a response, input, output and cached tokens are
\* the first present variant (snake_case before camelCase, the cached paths in
\* their order) and undefined when none is present; total_tokens, when the
\* usage has no total of its own, is input + output exactly when both are
\* numbers and undefined otherwise.
C22_FirstPresentVariant ==
    EarlierReplied =>
        \A i \in 1..Len(rawResponses) :
            LET usage == RawUsageOf(rawResponses[i])
                snap == response.usageSnapshots[i]
            IN  /\ ResolvedFrom(snap.input_tokens, usage, <<"input_tokens", "inputTokens">>)
                /\ ResolvedFrom(snap.output_tokens, usage, <<"output_tokens", "outputTokens">>)
                /\ ResolvedFrom(snap.cached_tokens, usage, CachedPaths)
                /\ IF FirstPresent(usage, <<"total_tokens", "totalTokens">>) # None
                   THEN snap.total_tokens =
                            FirstPresent(usage, <<"total_tokens", "totalTokens">>)[1]
                   ELSE IF snap.input_tokens.t = "number" /\ snap.output_tokens.t = "number"
                   THEN snap.total_tokens =
                            NumberValue(snap.input_tokens.twice + snap.output_tokens.twice)
                   ELSE snap.total_tokens = UndefinedValue

\* one answered run holds a response with no usage field at all, whose snapshot
\* is all undefined, and a response with exact zeros, whose snapshot is all 0
C22_Witness ==
    /\ EarlierReplied
    /\ Len(rawResponses) = 2
    /\ RawUsageOf(rawResponses[1]) = <<>>
    /\ response.usageSnapshots[1].input_tokens = UndefinedValue
    /\ response.usageSnapshots[1].total_tokens = UndefinedValue
    /\ response.usageSnapshots[2].input_tokens = NumberValue(0)
    /\ response.usageSnapshots[2].cached_tokens = NumberValue(0)
    /\ response.usageSnapshots[2].total_tokens = NumberValue(0)

-----------------------------------------------------------------------------
(* Properties of the memory items *)

\* the items the list was made of: the store's array, cut by a search tool to
\* its limit
ItemsListed ==
    IF RouteListed THEN exec.res[1].items
    ELSE SubSeq(exec.res[1].items, 1,
                IF ValueAt(toolCall.input, "limit").twice \div 2 < Len(exec.res[1].items)
                THEN ValueAt(toolCall.input, "limit").twice \div 2
                ELSE Len(exec.res[1].items))

\* the listed list has one entry per item, in the items' order, each taken
\* from the first field of memory, data.memory, text, content that is neither
\* undefined nor null, else the item itself if a string, else its serialisation
C23_OnePerItemInOrder ==
    (SearchListed \/ RouteListed) =>
        /\ Len(ListedMemories) = Len(ItemsListed)
        /\ \A i \in 1..Len(ItemsListed) :
              LET m == ItemsListed[i]
                  first == FirstPresent(m.fields, <<"memory", "data.memory", "text", "content">>)
              IN  ListedMemories[i] =
                      IF first # None THEN first[1]
                      ELSE IF m.kind = "string" THEN StringValue(m.s)
                      ELSE JsonStringify(m)

\* C23: every entry of the list a memory search returns is a plain string.
C23_EveryItemIsAString ==
    (SearchListed \/ RouteListed) =>
        \A i \in 1..Len(ListedMemories) : ListedMemories[i].t = "string"

-----------------------------------------------------------------------------
(* Properties of the per-property validators *)

\* the SDK has parsed the arguments of the tool call with the tool's validator
ArgumentsParsed ==
    /\ route = "chat" /\ pc = "running"
    /\ runState \in {"AwaitingStore", "ToolReturned"}
    /\ exec.tool = "search_memories"

DeclaredProperty == toolDefinitions[1].parameters.properties[1].value
SentValue == toolCall.args[1].value

WithinBounds(n, lower, upper) ==
    /\ (lower # None => n >= lower[1])
    /\ (upper # None => n <= upper[1])

\* the value conforms to the declaration of the property
Conforms(prop, v) ==
    IF prop.type = "string" /\ prop.enum # <<>>
    THEN v.t = "string" /\ \E k \in 1..Len(prop.enum) : prop.enum[k] = v.s
    ELSE IF prop.type = "string"
    THEN v.t = "string" /\ WithinBounds(Len(v.s), prop.minLength, prop.maxLength)
    ELSE IF prop.type = "integer"
    THEN /\ v.t = "number" /\ v.twice % 2 = 0
         /\ WithinBounds(v.twice \div 2, prop.minimum, prop.maximum)
    ELSE IF prop.type = "number"
    THEN /\ v.t = "number"
         /\ (prop.minimum # None => v.twice >= 2 * prop.minimum[1])
         /\ (prop.maximum # None => v.twice <= 2 * prop.maximum[1])
    ELSE v.t = "boolean"

\* C24: the executor of a tool runs on a value of the declared property
\* exactly when the value conforms to the declaration: one of the enum values
\* for a string with a non-empty enum, whatever its length; a string of a
\* length within minLength and maxLength for a string without enum; a whole
\* number within minimum and maximum for an integer; a number within them for
\* a number; true or false for a boolean.
C24_AcceptsExactlyDeclared ==
    ArgumentsParsed => (exec.invoked <=> Conforms(DeclaredProperty, SentValue))

\* the enum value "a", shorter than the declared minLength 2, was accepted
C24_Witness ==
    /\ ArgumentsParsed /\ exec.invoked
    /\ DeclaredProperty.enum = <<"a", "bb">>
    /\ DeclaredProperty.minLength = Some(2)
    /\ SentValue = StringValue("a")

-----------------------------------------------------------------------------
(* Properties of the tool building *)

\* the schema of a definition as sent has a type other than "object", or a
\* property whose type is none of the supported ones or missing
HasBadSchema(item) ==
    /\ item.kind = "object" /\ item.parameters.kind = "object"
    /\ \A k \in 1..Len(item.parameters.properties) :
          item.parameters.properties[k].value.kind = "object"
    /\ \/ item.parameters.type # "object"
       \/ \E k \in 1..Len(item.parameters.properties) :
             item.parameters.properties[k].value.type \notin ParameterTypes

SentBadSchema ==
    /\ route = "chat" /\ pc # "idle"
    /\ body.toolDefinitions.kind = "array"
    /\ \E i \in 1..Len(body.toolDefinitions.items) :
          HasBadSchema(body.toolDefinitions.items[i])

\* C25: buildToolParameters throws for a schema whose type is not "object" or
\* that has a property of an unsupported or missing type, and a chat request
\* with such a definition gets no tools and no model call, and is answered
\* with an error.
C25_BadSchemaBuildsNoTool ==
    SentBadSchema =>
        /\ \A i \in 1..Len(body.toolDefinitions.items) :
              HasBadSchema(body.toolDefinitions.items[i])
                  => ~BuildToolParameters(body.toolDefinitions.items[i].parameters).ok
        /\ toolsInstance = <<>>
        /\ modelCalls = 0 /\ runState = "Idle"
        /\ pc \in {"parsed", "normalized", "responded"}
        /\ pc = "responded" => response.kind = "error" /\ response.status = 400

\* a request whose second definition has a property without type was answered
\* with the builder's error
C25_Witness ==
    /\ SentBadSchema /\ pc = "responded"
    /\ Len(body.toolDefinitions.items) = 2
    /\ body.toolDefinitions.items[1] = AddMemoryDefinition
    /\ Len(body.toolDefinitions.items[2].parameters.properties) = 2
    /\ body.toolDefinitions.items[2].parameters.properties[2].value = UntypedProperty
    /\ response.error.text = "Unsupported parameter type: ${String(prop.type)}"

-----------------------------------------------------------------------------
(* Properties of add_memory with no text *)

\* the text of the arguments is missing, empty or only whitespace
BlankText(args) ==
    ~HasKey(args, "text")
    \/ (ValueAt(args, "text").t = "string" /\ ValueAt(args, "text").s \in {"", "  "})

\* add_memory is invoked for a user with a blank text, and returns
AddMemoryOfBlankReturns ==
    /\ pc = "running" /\ runState = "ToolInvoked"
    /\ toolCall.execute = "add_memory"
    /\ userId # UndefinedUserId
    /\ BlankText(toolCall.args)
    /\ runState' = "ToolReturned"

\* C26: add_memory invoked for a user with an empty or whitespace text returns
\* a text, never the queued acknowledgement, and queues, starts and applies no
\* write; no write of a blank text is ever pending, in flight or stored.
C26_BlankTextQueuesNothing ==
    /\ [][AddMemoryOfBlankReturns =>
             /\ toolResult'.form = "text"
             /\ exec'.queuedId = 0
             /\ immediates' = immediates /\ nextWriteId' = nextWriteId
             /\ inflight' = inflight /\ store' = store]_vars
    /\ [](/\ \A k \in 1..Len(immediates) : immediates[k].text \notin {"", "  "}
          /\ \A w \in inflight \cup store : w.text \notin {"", "  "})

\* the executor refused a whitespace text while an earlier write was pending
C26_Witness ==
    /\ pc = "running" /\ runState = "ToolReturned"
    /\ toolCall.execute = "add_memory" /\ exec.invoked
    /\ userId = "u1"
    /\ toolCall.args = <<Entry("text", StringValue("  "))>>
    /\ toolResult = EmptyMemoryText
    /\ Len(immediates) = 1

-----------------------------------------------------------------------------
(* Properties of successive runs of one user *)

\* a write queued for the user of the current run has not been applied: it
\* waits for its immediate, or its mem0.add has not resolved
WriteOfUserPending ==
    \/ \E k \in 1..Len(immediates) : immediates[k].userId = userId
    \/ \E w \in inflight : w.userId = userId

\* C27: a search is never ordered after the writes queued before it: whenever
\* search_memories has been invoked the executor can run, and whenever it
\* awaits the store the store can answer, whatever writes are pending.
C27_SearchDoesNotWaitForWrites ==
    /\ (pc = "running" /\ runState = "ToolInvoked") => ENABLED DispatchTool
    /\ (pc = "running" /\ runState = "AwaitingStore") => ENABLED StoreAnswers

\* a run that made a search only, so one that started after the run that
\* queued the write had finished, has the store's answer while that write of
\* the same user is still not applied
C27_Witness ==
    /\ pc = "running" /\ runState = "ToolReturned"
    /\ toolCall.execute = "search_memories" /\ exec.res # None
    /\ modelCalls = 1
    /\ WriteOfUserPending
    /\ store = {}

-----------------------------------------------------------------------------
(* Properties of the chat page's composer *)

CountOf(role) == Len(SelectSeq(pageMessages, LAMBDA m : m.role = role))

\* C28: at most one fetch of /api/chat is unsettled; sendingRef is true
\* exactly while one is; the messages alternate between a non-blank user
\* message and one assistant message, the reply or an error, so that a submit
\* with a blank draft or during a send has added nothing and every accepted
\* submit gets exactly one assistant message when its fetch settles.
C28_OneRequestAtATime ==
    /\ fetches <= 1
    /\ sendingRef <=> fetches = 1
    /\ CountOf("assistant") + fetches = CountOf("user")
    /\ \A i \in 1..Len(pageMessages) :
          /\ pageMessages[i].role = (IF i % 2 = 1 THEN "user" ELSE "assistant")
          /\ pageMessages[i].role = "user" => pageMessages[i].text \notin {"", "  "}

\* two submits were accepted and answered, one with a reply and one with an
\* error, and a draft is typed while nothing is being sent
C28_Witness ==
    /\ Len(pageMessages) = 4
    /\ ~pageMessages[2].failed /\ pageMessages[4].failed
    /\ ~sendingRef /\ fetches = 0
    /\ draft = "hi"

-----------------------------------------------------------------------------
(* Properties of the order of the chat handler's gates *)

\* the tool definitions the request would be served with, if they normalize
DefinitionsSent ==
    IF body.toolDefinitions.kind = "undefined" THEN Returned(DEFAULT_TOOL_DEFINITIONS)
    ELSE NormalizeToolDefinitions(body.toolDefinitions)

\* the request's tool definitions fail the normalization or the building
InvalidDefinitionsSent ==
    ~DefinitionsSent.ok \/ ~BuildTools(DefinitionsSent.value).ok

ChatRequestIn == route = "chat" /\ pc # "idle"

\* C29: the chat handler takes its gates in the order normalization, tool
\* building, credential test; a request with invalid tool definitions is
\* answered 400 whether or not the credential is there, the credential's 500
\* is given only to requests whose tools were built, and the run starts only
\* after all three gates.
C29_GatesInOrder ==
    /\ [][ChatRequestIn' =>
             /\ pc' = "normalized" /\ pc # pc' => pc = "parsed"
             /\ pc' = "built" => pc \in {"normalized", "built"}
             /\ pc' = "ready" => pc \in {"built", "ready"}
             /\ pc' = "running" => pc \in {"ready", "running"}]_vars
    /\ [](ChatRequestIn =>
             /\ pc \in {"built", "ready", "running"} =>
                    /\ ~InvalidDefinitionsSent
                    /\ toolsInstance = BuildTools(DefinitionsSent.value).value
             /\ pc \in {"ready", "running"} => env.openaiKey
             /\ runState # "Idle" => pc = "running" /\ env.openaiKey /\ ~InvalidDefinitionsSent
             /\ (pc = "responded" /\ InvalidDefinitionsSent) =>
                    response.kind = "error" /\ response.status = 400
             /\ (pc = "responded" /\ response.kind = "error" /\ response.status = 500
                    /\ runState = "Idle") =>
                    ~InvalidDefinitionsSent /\ ~env.openaiKey)

\* with no model credential, a request whose definitions normalize but name
\* an unsupported tool was answered 400
C29_Witness ==
    /\ ChatRequestIn /\ pc = "responded"
    /\ ~env.openaiKey
    /\ DefinitionsSent.ok /\ ~BuildTools(DefinitionsSent.value).ok
    /\ response.status = 400

-----------------------------------------------------------------------------
(* Properties of the site password gate *)

LastPrompt == prompts[Len(prompts)]

\* C30: once the page is open, authorized is true only if no site password is
\* configured, or the stored value is the password, or the password was
\* entered in a prompt; after a wrong input authorized is false and another
\* prompt is scheduled; after a cancelled prompt authorized is false and
\* nothing is scheduled; and once the effect is cleaned up no prompt is shown
\* and authorized does not change.
C30_AuthorizedOnlyWithPassword ==
    /\ [](effect # "mounted" =>
             /\ authorized =>
                    \/ sitePassword = ""
                    \/ localStorage = sitePassword
                    \/ \E k \in 1..Len(prompts) : prompts[k] = sitePassword
             /\ (effect = "scheduled") =>
                    /\ ~authorized
                    /\ LastPrompt \notin {Cancelled, sitePassword}
             /\ (prompts # <<>> /\ LastPrompt = Cancelled) =>
                    ~authorized /\ effect = "stopped")
    /\ [][((prompts' # prompts /\ LastPrompt' \notin {Cancelled, sitePassword}) =>
               (~authorized' /\ effect' = "scheduled"))
          /\ (cancelled => (prompts' = prompts /\ authorized' = authorized))]_vars

\* after two wrong inputs and the right one the visitor is authorized, with a
\* storage that kept nothing
C30_Witness ==
    /\ sitePassword = "secret"
    /\ prompts = <<"wrong", "", "secret">>
    /\ authorized
    /\ localStorage = StorageThrows
    /\ cancelled


=============================================================================
